---- MODULE Spec2Model ----
(***************************************************************************)
(* State-machine model of the THavalon rules engine (src/game/game.py):    *)
(* player registration, start_game, and the proposal / vote / mission      *)
(* cycle, with the role classes of src/game/roles/ as role records.        *)
(*                                                                         *)
(* Python values are rendered as follows: None is the string "None";       *)
(* booleans stored in Optional fields are the strings "True" / "False";    *)
(* enum members are strings; a dict keyed by mission number is a sequence  *)
(* (missions are numbered consecutively from 0); the insertion-ordered     *)
(* dict session_id_to_player is the sequence of its keys plus one function *)
(* per Player attribute.                                                   *)
(*                                                                         *)
(* game.py is followed where the files of the role package disagree with   *)
(* it: the evil role classes are constructed with the is_assassin keyword  *)
(* as game.py passes it, Role._validate_mission_card is the method game.py *)
(* calls as validate_mission_card, and GamePhase has the member DONE that  *)
(* game.py assigns.                                                        *)
(***************************************************************************)
EXTENDS Integers, Sequences, FiniteSets, TLC

None == "None"

\* ------------------------------------------------------------------ bounds
\* Session ids a client may present, and the display names it may ask for.
SessionIds == {"s1", "s2", "s3", "s4", "s5", "s6", "s7", "s8", "s9", "s10",
               "s11"}
Names == {"p1", "p2", "p3", "p4", "p5", "p6", "p7", "p8", "p9", "p10",
          "p11"}
\* The (session id, name) pairs offered to add_player in Spec: two ids with
\* their own names, and one id asking for the other's name (a duplicate-name
\* attempt).
AddInputs == {<<"s1", "p1">>, <<"s2", "p2">>, <<"s2", "p1">>}
\* How many start_game calls of one behaviour get past the player-count check.
MaxStartCalls == 2
\* The role classes the random samples of start_game fall on in Spec.
DrawnRoles == {"Merlin", "Maeve", "Mordred"}

\* --------------------------------------------------------- program constants
MIN_NUM_PLAYERS == 2
MAX_NUM_PLAYERS == 10

MISSION_NUM_TO_PROPOSAL_SIZE ==
  << <<1, 1, 1, 1, 1>>,
     <<1, 1, 2, 2, 2>>,
     <<1, 2, 3, 3, 3>>,
     <<1, 2, 3, 2, 3>>,
     <<2, 3, 2, 3, 3>>,
     <<2, 3, 4, 3, 4>>,
     <<2, 3, 3, 4, 4>>,
     <<3, 4, 4, 5, 5>>,
     <<3, 4, 4, 5, 5>>,
     <<3, 4, 4, 5, 5>> >>

GAME_SIZE_TO_GOOD_COUNT == <<0, 1, 2, 2, 3, 4, 4, 5, 6, 6>>

BASE_GOOD_ROLES == <<"Iseult", "Merlin", "Percival", "Tristan">>
BASE_EVIL_ROLES == <<"Maeve", "Mordred", "Morgana">>

GAME_SIZE_TO_GOOD_ROLES ==
  [n \in 2..10 |-> IF n <= 6 THEN <<"Nimue">>
                   ELSE IF n = 7 THEN <<"Lancelot", "Nimue">>
                   ELSE <<"Lancelot">>]

GAME_SIZE_TO_EVIL_ROLES ==
  [n \in 2..10 |-> IF n <= 6 THEN <<>>
                   ELSE IF n = 7 THEN <<"Maelegant">>
                   ELSE <<"Agravaine", "Maelegant">>]

\* ------------------------------------------------------------------ helpers
Range(s) == {s[i] : i \in 1..Len(s)}

\* Every rearrangement of the sequence s (the outcomes of random.shuffle).
Shuffles(s) ==
  {[i \in 1..Len(s) |-> s[p[i]]] : p \in Permutations(1..Len(s))}

Reverse(s) == [i \in 1..Len(s) |-> s[Len(s) + 1 - i]]

\* Two of the outcomes of random.shuffle: the identity and the reversal.
Reversals(s) == {s, Reverse(s)}

\* The outcomes of random.shuffle that are explored.
Orders(s, every_order) == IF every_order THEN Shuffles(s) ELSE Reversals(s)

\* A variant of Samples that may select the same index more than once.
SamplesWithRepeats(n, k) == [1..k -> 1..n]

\* Every ordered selection of k distinct indices of a population of size n
\* (the outcomes of random.sample(range(0, n), k)); indices are 1-based here.
Samples(n, k) ==
  {s \in [1..k -> 1..n] : \A i, j \in 1..k : i # j => s[i] # s[j]}

RECURSIVE Count(_, _)
Count(s, x) ==
  IF s = <<>> THEN 0
  ELSE (IF Head(s) = x THEN 1 ELSE 0) + Count(Tail(s), x)

\* ---------------------------------------------------------------- role classes
EvilRoleNames == {"Maeve", "Mordred", "Morgana", "Maelegant", "Agravaine"}

NoRole ==
  [role_name |-> None, team |-> None, is_reverser |-> FALSE, is_assassin |-> FALSE,
   players_seen |-> <<>>, used_ability |-> FALSE, ability_count |-> 0]

\* Role.__init__ as reached from each concrete class's constructor: the name,
\* the team, the is_reverser flag the class passes (only Maelegant passes True)
\* and an empty players_seen list.
NewRole(name, assassin) ==
  [role_name |-> name,
   team |-> IF name \in EvilRoleNames THEN "EVIL" ELSE "GOOD",
   is_reverser |-> (name = "Maelegant"),
   is_assassin |-> assassin,
   players_seen |-> <<>>,
   used_ability |-> FALSE,
   ability_count |-> 0]

\* A variant of add_seen_player in which Merlin is also shown Mordred.
add_seen_player_showing_mordred(role, other, other_role) ==
  LET append == [role EXCEPT !.players_seen = Append(@, other)]
      keep(r) == [role |-> r, raised |-> FALSE]
  IN CASE role.role_name \in {"Tristan", "Iseult"} ->
            IF Len(role.players_seen) = 1
            THEN [role |-> role, raised |-> TRUE]
            ELSE keep(append)
       [] role.role_name = "Merlin" ->
            IF other_role.team = "EVIL" \/ other_role.role_name = "Lancelot"
            THEN keep(append) ELSE keep(role)
       [] role.role_name = "Percival" ->
            IF other_role.role_name = "Morgana" \/ other_role.role_name = "Merlin"
            THEN keep(append) ELSE keep(role)
       [] role.role_name = "Nimue" -> keep(append)
       [] role.role_name = "Lancelot" -> keep(role)
       [] OTHER ->
            IF other_role.team = "EVIL" /\ other_role.role_name # "Colgrevance"
            THEN keep(append) ELSE keep(role)

\* role.add_seen_player(other): the observing role, the observed player's id
\* and role.  Result: the observing role afterwards and whether the call raised.
add_seen_player(role, other, other_role) ==
  LET append == [role EXCEPT !.players_seen = Append(@, other)]
      keep(r) == [role |-> r, raised |-> FALSE]
  IN CASE role.role_name \in {"Tristan", "Iseult"} ->
            IF Len(role.players_seen) = 1
            THEN [role |-> role, raised |-> TRUE]
            ELSE keep(append)
       [] role.role_name = "Merlin" ->
            IF (other_role.team = "EVIL" /\ other_role.role_name # "Mordred")
               \/ other_role.role_name = "Lancelot"
            THEN keep(append) ELSE keep(role)
       [] role.role_name = "Percival" ->
            IF other_role.role_name = "Morgana" \/ other_role.role_name = "Merlin"
            THEN keep(append) ELSE keep(role)
       [] role.role_name = "Nimue" -> keep(append)
       [] role.role_name = "Lancelot" -> keep(role)
       [] OTHER ->
            IF other_role.team = "EVIL" /\ other_role.role_name # "Colgrevance"
            THEN keep(append) ELSE keep(role)

\* Role._validate_mission_card, and Agravaine's override.
validate_mission_card(role, card) ==
  IF role.role_name = "Agravaine" THEN card = "FAIL"
  ELSE IF card = "REVERSE" THEN role.is_reverser
  ELSE IF card = "FAIL" THEN role.team = "EVIL"
  ELSE TRUE

\* -------------------------------------------------------------------- state
VARIABLES
  session_id_to_player,       \* keys of the dict, in insertion order
  player_name,                \* Player.name, per session id (None: no Player)
  proposal_vote,              \* Player.proposal_vote, per session id
  mission_card,               \* Player.mission_card, per session id
  role,                       \* Player.role, per session id
  player_name_to_session_id,  \* name -> session id (None: name not taken)
  lobby_status,
  game_phase,
  mission_num_to_result,
  mission_players,
  mission_cards,
  last_vote_info,
  proposal_order_names,
  proposal_order_players,
  proposer_index,
  proposer_id,
  current_proposal_num,
  max_num_proposers,
  current_proposals,
  number_votes,
  mission_num,
  current_mission,
  current_mission_count,
  maeve_player,
  agravaine_player,
  ret,                        \* outcome of the last state-changing call
  start_calls,                \* start_game calls made so far (bounded)
  uuid_to_game,               \* GameManager.uuid_to_game (0: no entry; n: the
                              \* n-th Game object constructed)
  games_made,                 \* Game objects constructed by create_new_game
  manager_call,               \* per thread: its GameManager call in progress
  manager_ret,                \* per thread: outcome of its last finished call
  count,                      \* LobbyManager._count
  lobby_to_game,              \* LobbyManager._lobby_to_game (None: no entry)
  game_to_lobby,              \* LobbyManager._game_to_lobby (None: no entry)
  lobby_ret                   \* outcome of the last LobbyManager call

playerVars == <<session_id_to_player, player_name, player_name_to_session_id>>
roundVars == <<proposal_vote, mission_card>>
roleVars == <<role, maeve_player, agravaine_player>>
orderVars == <<proposal_order_names, proposal_order_players, proposer_index,
               proposer_id, max_num_proposers>>
historyVars == <<mission_num_to_result, mission_players, mission_cards>>
cycleVars == <<game_phase, current_proposal_num, current_proposals, number_votes,
               mission_num, current_mission, current_mission_count, last_vote_info>>

vars == <<session_id_to_player, player_name, proposal_vote, mission_card, role,
          player_name_to_session_id, lobby_status, game_phase,
          mission_num_to_result, mission_players, mission_cards, last_vote_info,
          proposal_order_names, proposal_order_players, proposer_index,
          proposer_id, current_proposal_num, max_num_proposers,
          current_proposals, number_votes, mission_num, current_mission,
          current_mission_count, maeve_player, agravaine_player, ret,
          start_calls, uuid_to_game, games_made, manager_call, manager_ret,
          count, lobby_to_game, game_to_lobby, lobby_ret>>

\* The attributes of one Game (with the model's ret and start_calls), and those
\* of the GameManager.
instanceVars == <<playerVars, roundVars, roleVars, orderVars, historyVars,
                  cycleVars, lobby_status, ret, start_calls>>
managerVars == <<uuid_to_game, games_made, manager_call, manager_ret>>
lobbyManagerVars == <<count, lobby_to_game, game_to_lobby, lobby_ret>>
registryVars == <<managerVars, lobbyManagerVars>>

\* ret records the last state-changing call and how it ended: "ok", or the
\* exception it raised after it had already changed the state.
Raise(op, kind) == [op |-> op, status |-> kind]
Return(op) == [op |-> op, status |-> "ok"]

\* -------------------------------------------------------------- GameManager
\* The uuids uuid.uuid4() may return, the threads that call the GameManager,
\* and how many Game objects create_new_game constructs in one behaviour.
GameUuids == {"g1", "g2", "g3"}
Threads == {"t1", "t2"}
MaxGames == 3

NoCall == [op |-> None, uuid |-> None, game |-> 0]
NoResult == [op |-> None, uuid |-> None, status |-> None, game |-> 0]

\* GameManager.__init__
NewManager ==
  /\ uuid_to_game = [u \in GameUuids |-> 0]
  /\ games_made = 0
  /\ manager_call = [t \in Threads |-> NoCall]
  /\ manager_ret = [t \in Threads |-> NoResult]

\* "game_uuid in self.uuid_to_game"
has_game(game_uuid) == uuid_to_game[game_uuid] # 0

ManagerResult(call, status, game) ==
  [op |-> call.op, uuid |-> call.uuid, status |-> status, game |-> game]

\* A variant of membership_check_raises that never raises.
membership_check_never_raises(op, game_uuid) == FALSE

\* The membership test each method starts with: whether it raises ValueError.
membership_check_raises(op, game_uuid) ==
  IF op = "create_new_game" THEN has_game(game_uuid) ELSE ~has_game(game_uuid)

\* A call by thread t up to and including its membership test.  For
\* create_new_game game_uuid is the value of str(uuid.uuid4()), and the Game
\* object is constructed before the test.
manager_begin(t, op, game_uuid) ==
  LET made == IF op = "create_new_game" THEN games_made + 1 ELSE games_made
      call == [op |-> op, uuid |-> game_uuid,
               game |-> IF op = "create_new_game" THEN made ELSE 0]
  IN /\ manager_call[t] = NoCall
     /\ made <= MaxGames
     /\ games_made' = made
     /\ IF membership_check_raises(op, game_uuid)
        THEN /\ manager_ret' =
                  [manager_ret EXCEPT ![t] = ManagerResult(call, "ValueError", 0)]
             /\ UNCHANGED manager_call
        ELSE /\ manager_call' = [manager_call EXCEPT ![t] = call]
             /\ UNCHANGED manager_ret
     /\ UNCHANGED <<uuid_to_game, instanceVars, lobbyManagerVars>>

\* The rest of the call: the dictionary assignment, lookup or del, and the
\* return.  A lookup or del of a key that is no longer there raises KeyError.
manager_finish(t) ==
  LET call == manager_call[t]
  IN /\ call # NoCall
     /\ manager_call' = [manager_call EXCEPT ![t] = NoCall]
     /\ CASE call.op = "create_new_game" ->
               /\ uuid_to_game' = [uuid_to_game EXCEPT ![call.uuid] = call.game]
               /\ manager_ret' =
                    [manager_ret EXCEPT ![t] = ManagerResult(call, "ok", call.game)]
          [] call.op = "get_game" ->
               /\ manager_ret' =
                    [manager_ret EXCEPT ![t] =
                       IF has_game(call.uuid)
                       THEN ManagerResult(call, "ok", uuid_to_game[call.uuid])
                       ELSE ManagerResult(call, "KeyError", 0)]
               /\ UNCHANGED uuid_to_game
          [] call.op = "delete_game" ->
               /\ manager_ret' =
                    [manager_ret EXCEPT ![t] =
                       IF has_game(call.uuid)
                       THEN ManagerResult(call, "ok", 0)
                       ELSE ManagerResult(call, "KeyError", 0)]
               /\ uuid_to_game' = [uuid_to_game EXCEPT ![call.uuid] = 0]
     /\ UNCHANGED <<games_made, instanceVars, lobbyManagerVars>>

ManagerOps == {"create_new_game", "get_game", "delete_game"}

\* ------------------------------------------------------------- LobbyManager
\* The largest value _count is followed to.
MaxLobbies == 4

\* The keys of _lobby_to_game: str(self._count).
LobbyIds == {ToString(i) : i \in 1..MaxLobbies}

NoLobbyResult == [op |-> None, game |-> None, status |-> None, lobby |-> 0]

\* LobbyManager.__init__
NewLobbyManager ==
  /\ count = 0
  /\ lobby_to_game = [l \in LobbyIds |-> None]
  /\ game_to_lobby = [g \in GameUuids |-> None]
  /\ lobby_ret = NoLobbyResult

\* The two registries of the process as they are constructed.
NewRegistries == NewManager /\ NewLobbyManager

LobbyResult(op, game_id, status, lobby) ==
  [op |-> op, game |-> game_id, status |-> status, lobby |-> lobby]

\* A variant of next_lobby_count that never reuses a number: one more than
\* the largest lobby number in use.
next_unused_lobby_count(c, lobbies) ==
  IF \A i \in 1..MaxLobbies : lobbies[ToString(i)] = None THEN 1
  ELSE 1 + CHOOSE i \in 1..MaxLobbies :
             /\ lobbies[ToString(i)] # None
             /\ \A j \in (i + 1)..MaxLobbies : lobbies[ToString(j)] = None

\* "self._count += 1"
next_lobby_count(c, lobbies) == c + 1

create_new_lobby(game_id) ==
  IF game_to_lobby[game_id] # None
  THEN /\ lobby_ret' = LobbyResult("create_new_lobby", game_id, "ValueError", 0)
       /\ UNCHANGED <<count, lobby_to_game, game_to_lobby>>
  ELSE LET c == next_lobby_count(count, lobby_to_game)
       IN /\ c <= MaxLobbies
          /\ count' = c
          /\ lobby_to_game' = [lobby_to_game EXCEPT ![ToString(c)] = game_id]
          /\ game_to_lobby' = [game_to_lobby EXCEPT ![game_id] = ToString(c)]
          /\ lobby_ret' = LobbyResult("create_new_lobby", game_id, "ok", c)

\* The second del raises KeyError, after the first has been done, when the
\* lobby's entry of _lobby_to_game is no longer there.
remove_lobby(game_id) ==
  LET lobby == game_to_lobby[game_id]
  IN IF lobby = None
     THEN /\ lobby_ret' = LobbyResult("remove_lobby", game_id, "ValueError", 0)
          /\ UNCHANGED <<count, lobby_to_game, game_to_lobby>>
     ELSE /\ game_to_lobby' = [game_to_lobby EXCEPT ![game_id] = None]
          /\ IF lobby_to_game[lobby] = None
             THEN /\ lobby_ret' = LobbyResult("remove_lobby", game_id, "KeyError", 0)
                  /\ UNCHANGED <<count, lobby_to_game>>
             ELSE /\ lobby_to_game' = [lobby_to_game EXCEPT ![lobby] = None]
                  /\ count' = count - 1
                  /\ lobby_ret' = LobbyResult("remove_lobby", game_id, "ok", 0)

CreateNewLobby ==
  /\ \E game_id \in GameUuids : create_new_lobby(game_id)
  /\ UNCHANGED <<instanceVars, managerVars>>

RemoveLobby ==
  /\ \E game_id \in GameUuids : remove_lobby(game_id)
  /\ UNCHANGED <<instanceVars, managerVars>>


\* Game.__init__
NewGame ==
  /\ session_id_to_player = <<>>
  /\ player_name = [s \in SessionIds |-> None]
  /\ proposal_vote = [s \in SessionIds |-> None]
  /\ mission_card = [s \in SessionIds |-> None]
  /\ role = [s \in SessionIds |-> NoRole]
  /\ player_name_to_session_id = [n \in Names |-> None]
  /\ lobby_status = "JOINING"
  /\ game_phase = "PROPOSAL"
  /\ mission_num_to_result = <<>>
  /\ mission_players = <<>>
  /\ mission_cards = <<>>
  /\ last_vote_info = [n \in Names |-> None]
  /\ proposal_order_names = <<>>
  /\ proposal_order_players = <<>>
  /\ proposer_index = 0
  /\ proposer_id = ""
  /\ current_proposal_num = 1
  /\ max_num_proposers = 0
  /\ current_proposals = <<>>
  /\ number_votes = 0
  /\ mission_num = 0
  /\ current_mission = <<>>
  /\ current_mission_count = 0
  /\ maeve_player = None
  /\ agravaine_player = None
  /\ ret = Return("__init__")

Init == NewGame /\ start_calls = 0 /\ NewRegistries

get_num_players == Len(session_id_to_player)

is_game_full == get_num_players = MAX_NUM_PLAYERS

get_player_names_in_game ==
  [i \in 1..Len(session_id_to_player) |-> player_name[session_id_to_player[i]]]


\* ------------------------------------------------------------- registration
\* A variant of add_player_rejects that leaves out the capacity check.
add_player_rejects_ignoring_capacity(session_id, name) ==
  \/ lobby_status # "JOINING"
  \/ session_id \in Range(session_id_to_player)
  \/ name \in Range(get_player_names_in_game)
  \/ player_name_to_session_id[name] # None

add_player_rejects(session_id, name) ==
  \/ lobby_status # "JOINING"
  \/ is_game_full
  \/ session_id \in Range(session_id_to_player)
  \/ name \in Range(get_player_names_in_game)
  \/ player_name_to_session_id[name] # None

add_player(session_id, name) ==
  /\ ~add_player_rejects(session_id, name)
  /\ session_id_to_player' = Append(session_id_to_player, session_id)
  /\ player_name' = [player_name EXCEPT ![session_id] = name]
  /\ proposal_vote' = [proposal_vote EXCEPT ![session_id] = None]
  /\ mission_card' = [mission_card EXCEPT ![session_id] = None]
  /\ role' = [role EXCEPT ![session_id] = NoRole]
  /\ player_name_to_session_id' =
       [player_name_to_session_id EXCEPT ![name] = session_id]
  /\ ret' = Return("add_player")
  /\ UNCHANGED <<maeve_player, agravaine_player, orderVars, historyVars,
                 cycleVars, lobby_status, start_calls>>

AddPlayer ==
  /\ \E in \in AddInputs : add_player(in[1], in[2])
  /\ UNCHANGED registryVars

\* A variant of RemoveAt that always drops the first element.
RemoveFirst(s, i) == Tail(s)

RemoveAt(s, i) == SubSeq(s, 1, i - 1) \o SubSeq(s, i + 1, Len(s))

IndexOf(s, x) == CHOOSE i \in 1..Len(s) : s[i] = x

\* A variant of remove_player_rejects that leaves out the lobby-status check.
remove_player_rejects_any_status(session_id) ==
  session_id \notin Range(session_id_to_player)

remove_player_rejects(session_id) ==
  \/ lobby_status # "JOINING"
  \/ session_id \notin Range(session_id_to_player)

remove_player(session_id) ==
  /\ ~remove_player_rejects(session_id)
  /\ player_name_to_session_id' =
       [player_name_to_session_id EXCEPT ![player_name[session_id]] = None]
  /\ session_id_to_player' =
       RemoveAt(session_id_to_player, IndexOf(session_id_to_player, session_id))
  /\ player_name' = [player_name EXCEPT ![session_id] = None]
  /\ ret' = Return("remove_player")
  /\ UNCHANGED <<roundVars, roleVars, orderVars, historyVars, cycleVars,
                 lobby_status, start_calls>>

RemovePlayer ==
  /\ \E s \in SessionIds : remove_player(s)
  /\ UNCHANGED registryVars

\* ----------------------------------------------------------------- start_game
\* The add_seen_player calls of the nested loops, in the order they are made:
\* for each player and each later player, player sees other, other sees player.
RECURSIVE SeenCalls(_, _, _)
SeenCalls(players, i, j) ==
  IF i > Len(players) THEN <<>>
  ELSE IF j > Len(players) THEN SeenCalls(players, i + 1, i + 2)
  ELSE << <<players[i], players[j]>>, <<players[j], players[i]>> >>
       \o SeenCalls(players, i, j + 1)

\* Runs the calls in order until one raises; r is [roles, raised].
RECURSIVE AddSeenAll(_, _)
AddSeenAll(calls, r) ==
  IF calls = <<>> \/ r.raised THEN r
  ELSE LET c == Head(calls)
           res == add_seen_player(r.roles[c[1]], c[2], r.roles[c[2]])
       IN AddSeenAll(Tail(calls),
                     [roles |-> [r.roles EXCEPT ![c[1]] = res.role],
                      raised |-> res.raised])

\* A variant of AssignRoles that sets the assassin flag on every evil role.
AssignRoles_every_evil_assassin(players, num_good, good_roles, evil_roles, good_idx, evil_idx, assassin) ==
  [s \in SessionIds |->
     IF s \notin Range(players) THEN role[s]
     ELSE LET i == IndexOf(players, s)
          IN IF i <= num_good
             THEN NewRole(good_roles[good_idx[i]], FALSE)
             ELSE NewRole(evil_roles[evil_idx[i - num_good]], TRUE)]

\* The roles after the two assignment loops: the first num_good shuffled players
\* get the sampled good roles, the rest the sampled evil roles.
AssignRoles(players, num_good, good_roles, evil_roles, good_idx, evil_idx, assassin) ==
  [s \in SessionIds |->
     IF s \notin Range(players) THEN role[s]
     ELSE LET i == IndexOf(players, s)
          IN IF i <= num_good
             THEN NewRole(good_roles[good_idx[i]], FALSE)
             ELSE NewRole(evil_roles[evil_idx[i - num_good]],
                          evil_idx[i - num_good] = assassin)]

MaxNumProposers_one_more(num_evil) == num_evil + 2

\* "self.max_num_proposers = num_evil + 1"
MaxNumProposers(num_evil) == num_evil + 1

\* The player recorded for a named evil role, if that role was sampled.
RecordedPlayer(players, num_good, evil_roles, evil_idx, name, old) ==
  IF \E k \in 1..Len(evil_idx) : evil_roles[evil_idx[k]] = name
  THEN players[num_good + (CHOOSE k \in 1..Len(evil_idx) : evil_roles[evil_idx[k]] = name)]
  ELSE old

\* drawn: the role names the samples may contain; every_order: whether every
\* outcome of random.shuffle is explored or the identity and the reversal only.
start_game(drawn, every_order) ==
  LET num_players == get_num_players
  IN   /\ ~(num_players < MIN_NUM_PLAYERS \/ num_players > MAX_NUM_PLAYERS)
       /\ start_calls < MaxStartCalls
       /\ start_calls' = start_calls + 1
       /\ \E players \in Orders(session_id_to_player, every_order) :
          \E order \in Orders(players, every_order) :
            LET num_good == GAME_SIZE_TO_GOOD_COUNT[num_players]
                num_evil == num_players - num_good
                good_roles == BASE_GOOD_ROLES \o GAME_SIZE_TO_GOOD_ROLES[num_players]
                evil_roles == BASE_EVIL_ROLES \o GAME_SIZE_TO_EVIL_ROLES[num_players]
            IN /\ proposal_order_players' = order
               /\ proposal_order_names' = [i \in 1..Len(order) |-> player_name[order[i]]]
               /\ proposer_index' = num_players - 2
               /\ proposer_id' = order[num_players - 1]
               /\ max_num_proposers' = MaxNumProposers(num_evil)
               /\ IF num_good > Len(good_roles) \/ num_evil > Len(evil_roles)
                  THEN \* random.sample: sample larger than population
                       /\ ret' = Raise("start_game", "ValueError")
                       /\ UNCHANGED <<roleVars, lobby_status>>
                  ELSE \E good_idx \in Samples(Len(good_roles), num_good) :
                       \E evil_idx \in Samples(Len(evil_roles), num_evil) :
                       /\ \A i \in 1..num_good : good_roles[good_idx[i]] \in drawn
                       /\ \A i \in 1..num_evil : evil_roles[evil_idx[i]] \in drawn
                       /\ \E assassin \in Range(evil_idx) :
                         LET assigned == AssignRoles(players, num_good, good_roles,
                                                     evil_roles, good_idx, evil_idx,
                                                     assassin)
                             seen == AddSeenAll(SeenCalls(players, 1, 2),
                                                [roles |-> assigned, raised |-> FALSE])
                         IN /\ role' = seen.roles
                            /\ maeve_player' =
                                 RecordedPlayer(players, num_good, evil_roles,
                                                evil_idx, "Maeve", maeve_player)
                            /\ agravaine_player' =
                                 RecordedPlayer(players, num_good, evil_roles,
                                                evil_idx, "Agravaine", agravaine_player)
                            /\ IF seen.raised
                               THEN /\ ret' = Raise("start_game", "ValueError")
                                    /\ UNCHANGED lobby_status
                               ELSE /\ lobby_status' = "IN_PROGRESS"
                                    /\ ret' = Return("start_game")
       /\ UNCHANGED <<playerVars, roundVars, historyVars, cycleVars>>

\* ------------------------------------------------------------------ queries
get_proposal_size ==
  MISSION_NUM_TO_PROPOSAL_SIZE[get_num_players][mission_num + 1]

\* ----------------------------------------------------------- proposal phase
\* The proposals a proposer may submit: the first names of the seating order
\* in the required number; on the first mission also the last names (so the
\* two proposals differ); one name repeated; no name at all; and a name that
\* is not in the game.
ProposalInputs ==
  IF proposal_order_names = <<>> \/ mission_num > 4 THEN {<<>>}
  ELSE LET n == Len(proposal_order_names)
           k == get_proposal_size
       IN {SubSeq(proposal_order_names, 1, k),
           [i \in 1..k |-> proposal_order_names[1]],
           <<>>,
           [i \in 1..k |-> "FAKE"]}
          \cup (IF mission_num = 0
                THEN {SubSeq(proposal_order_names, n - k + 1, n)} ELSE {})

\* send_mission(proposal_idx) applied to the proposal list `proposals`
\* (proposal_idx is 0-based, as in the source).
send_mission(proposals, proposal_idx) ==
  /\ current_proposal_num' = 1
  /\ current_mission' = proposals[proposal_idx + 1]
  /\ current_proposals' = <<>>

\* _advance_proposal, except for current_proposal_num, which the caller sets.
advance_proposal ==
  /\ number_votes' = 0
  /\ proposer_index' = (proposer_index + 1) % get_num_players
  /\ proposer_id' = proposal_order_players[((proposer_index + 1) % get_num_players) + 1]

set_proposal_rejects(player_names) ==
  \/ lobby_status # "IN_PROGRESS"
  \/ game_phase # "PROPOSAL"
  \/ Len(player_names) # get_proposal_size
  \/ \E i \in 1..Len(player_names) : player_names[i] \notin Range(proposal_order_names)

is_first_on_any_mission(proposals, mission) == Len(proposals) = 1

\* "if len(self.current_proposals) == 1 and self.mission_num == 0"
is_first_of_two(proposals, mission) == Len(proposals) = 1 /\ mission = 0

is_never_forced(mission, proposal_num, max_proposers) == FALSE

\* "if self.mission_num != 0 and self.current_proposal_num == self.max_num_proposers"
is_forced(mission, proposal_num, max_proposers) ==
  mission # 0 /\ proposal_num = max_proposers

set_proposal(player_names) ==
  /\ ~set_proposal_rejects(player_names)
  /\ LET proposals == Append(current_proposals, player_names)
          IN IF is_first_of_two(proposals, mission_num)
             THEN /\ current_proposals' = proposals
                  /\ current_proposal_num' = current_proposal_num + 1
                  /\ advance_proposal
                  /\ ret' = Return("set_proposal")
                  /\ UNCHANGED <<game_phase, current_mission>>
             ELSE IF \/ (mission_num = 0 /\ Len(proposals) # 2)
                     \/ (mission_num # 0 /\ Len(proposals) # 1)
             THEN /\ current_proposals' = proposals
                  /\ ret' = Raise("set_proposal", "ValueError")
                  /\ UNCHANGED <<game_phase, current_proposal_num, current_mission,
                                 number_votes, proposer_index, proposer_id>>
             ELSE IF is_forced(mission_num, current_proposal_num, max_num_proposers)
             THEN /\ advance_proposal
                  /\ game_phase' = "MISSION"
                  /\ send_mission(proposals, 0)
                  /\ ret' = Return("set_proposal")
             ELSE /\ current_proposals' = proposals
                  /\ current_proposal_num' = current_proposal_num + 1
                  /\ advance_proposal
                  /\ game_phase' = "VOTE"
                  /\ ret' = Return("set_proposal")
                  /\ UNCHANGED current_mission
  /\ UNCHANGED <<playerVars, roundVars, roleVars, historyVars, lobby_status,
                 start_calls, mission_num, current_mission_count,
                 last_vote_info, proposal_order_names,
                 proposal_order_players, max_num_proposers>>

SetProposal ==
  /\ \E player_names \in ProposalInputs : set_proposal(player_names)
  /\ UNCHANGED registryVars

\* --------------------------------------------------------------- vote phase
Votes == {"True", "False"}

\* int(player.proposal_vote)
IntOfVote(v) == IF v = "True" THEN 1 ELSE 0

Upvotes(votes) == Cardinality({s \in Range(session_id_to_player) : votes[s] = "True"})

\* upvotes > get_num_players() / 2, a true division
IsMajority(upvotes, num_players) == 2 * upvotes > num_players

\* A variant of set_vote_rejects that lets a player vote again.
set_vote_rejects_first_vote_only(session_id) ==
  \/ lobby_status # "IN_PROGRESS"
  \/ game_phase # "VOTE"
  \/ session_id \notin Range(session_id_to_player)

set_vote_rejects(session_id) ==
  \/ lobby_status # "IN_PROGRESS"
  \/ game_phase # "VOTE"
  \/ session_id \notin Range(session_id_to_player)
  \/ proposal_vote[session_id] # None

\* "if self.number_votes != self.get_num_players()"
votes_incomplete(votes_made, num_players) == votes_made # num_players

never_sends_second_proposal(mission) == FALSE

\* "if self.mission_num == 0": a vote that is not carried sends the second proposal
sends_second_proposal(mission) == mission = 0

\* A variant of consume_used_ability that leaves the flag set.
keep_used_ability(roles, maeve, maeve_used) == roles

\* "maeve_used = True; self.maeve_player.role.used_ability = False"
consume_used_ability(roles, maeve, maeve_used) ==
  IF maeve_used THEN [roles EXCEPT ![maeve].used_ability = FALSE] ELSE roles

set_vote(session_id, vote) ==
  /\ ~set_vote_rejects(session_id)
  /\ LET votes == [proposal_vote EXCEPT ![session_id] = vote]
           upvotes == Upvotes(votes)
       IN /\ number_votes' = number_votes + 1
          /\ IF votes_incomplete(number_votes + 1, get_num_players)
             THEN \* still waiting on others
                  /\ proposal_vote' = votes
                  /\ ret' = Return("set_vote")
                  /\ UNCHANGED <<role, last_vote_info, game_phase,
                                 current_proposal_num, current_mission,
                                 current_proposals>>
             ELSE IF maeve_player # None /\ role[maeve_player].role_name # "Maeve"
             THEN \* maeve_player.role has no attribute used_ability
                  /\ proposal_vote' = votes
                  /\ ret' = Raise("set_vote", "AttributeError")
                  /\ UNCHANGED <<role, last_vote_info, game_phase,
                                 current_proposal_num, current_mission,
                                 current_proposals>>
             ELSE LET maeve_used == maeve_player # None
                                    /\ role[maeve_player].used_ability
                  IN /\ role' = consume_used_ability(role, maeve_player, maeve_used)
                     /\ last_vote_info' =
                          IF maeve_used THEN last_vote_info
                          ELSE [n \in Names |->
                                  IF player_name_to_session_id[n] # None
                                  THEN IntOfVote(votes[player_name_to_session_id[n]])
                                  ELSE last_vote_info[n]]
                     /\ proposal_vote' =
                          [s \in SessionIds |->
                             IF s \in Range(session_id_to_player) THEN None ELSE votes[s]]
                     /\ ret' = Return("set_vote")
                     /\ IF IsMajority(upvotes, get_num_players)
                        THEN /\ game_phase' = "MISSION"
                             /\ send_mission(current_proposals, 0)
                        ELSE IF sends_second_proposal(mission_num)
                        THEN /\ game_phase' = "MISSION"
                             /\ send_mission(current_proposals, 1)
                        ELSE /\ current_proposals' = <<>>
                             /\ game_phase' = "PROPOSAL"
                             /\ UNCHANGED <<current_proposal_num, current_mission>>
          /\ UNCHANGED <<playerVars, mission_card, maeve_player, agravaine_player,
                         orderVars, historyVars, lobby_status, start_calls,
                         mission_num, current_mission_count>>

SetVote ==
  /\ \E s \in SessionIds : \E v \in Votes : set_vote(s, v)
  /\ UNCHANGED registryVars

\* ------------------------------------------------------------ mission phase
MissionCards == {"SUCCESS", "FAIL", "REVERSE"}

\* The decision without the double-fail requirement.
mission_result_single_fail(num_players, mission, played_cards) ==
  LET num_fails == Count(played_cards, "FAIL")
      counted_reverse == Count(played_cards, "REVERSE")
      num_reverse == IF counted_reverse = 2 THEN 0 ELSE counted_reverse
  IN IF (num_fails > 0) # (num_reverse = 1) THEN "FAIL" ELSE "PASS"

\* The PASS / FAIL decision of play_mission_card for the shuffled played cards.
\* The decision with REVERSE cards ignored outside the double-fail mission.
mission_result_ignoring_reverse(num_players, mission, played_cards) ==
  LET num_fails == Count(played_cards, "FAIL")
      counted_reverse == Count(played_cards, "REVERSE")
      num_reverse == IF counted_reverse = 2 THEN 0 ELSE counted_reverse
  IN IF num_players >= 7 /\ mission = 3
     THEN IF \/ (num_reverse = 1 /\ num_fails = 1)
             \/ (num_reverse = 0 /\ num_fails >= 2)
          THEN "FAIL" ELSE "PASS"
     ELSE IF num_fails > 0 THEN "FAIL" ELSE "PASS"

mission_result(num_players, mission, played_cards) ==
  LET num_fails == Count(played_cards, "FAIL")
      counted_reverse == Count(played_cards, "REVERSE")
      num_reverse == IF counted_reverse = 2 THEN 0 ELSE counted_reverse
  IN IF num_players >= 7 /\ mission = 3
     THEN IF \/ (num_reverse = 1 /\ num_fails = 1)
             \/ (num_reverse = 0 /\ num_fails >= 2)
          THEN "FAIL" ELSE "PASS"
     ELSE IF num_fails > 0
     THEN IF num_reverse = 1 THEN "PASS" ELSE "FAIL"
     ELSE IF num_reverse = 1 THEN "FAIL" ELSE "PASS"

play_mission_card_rejects(session_id, card) ==
  \/ lobby_status # "IN_PROGRESS"
  \/ game_phase # "MISSION"
  \/ session_id \notin Range(session_id_to_player)
  \/ player_name[session_id] \notin Range(current_mission)
  \/ mission_card[session_id] # None
  \/ ~validate_mission_card(role[session_id], card)

cards_never_incomplete(cards_played, mission) == FALSE

\* "if self.current_mission_count != len(self.current_mission)"
cards_incomplete(cards_played, mission) == cards_played # Len(mission)

\* A variant of phase_after_mission for a game that never ends.
phase_after_mission_never_ending(num_passed_missions, num_failed_missions) ==
  "PROPOSAL"

\* The phase after a resolved mission.
phase_after_mission(num_passed_missions, num_failed_missions) ==
  IF num_passed_missions = 3 THEN "ASSASSINATION"
  ELSE IF num_failed_missions = 3 THEN "DONE"
  ELSE "PROPOSAL"

play_mission_card(session_id, card) ==
  /\ ~play_mission_card_rejects(session_id, card)
  /\ LET cards == [mission_card EXCEPT ![session_id] = card]
          IN IF cards_incomplete(current_mission_count + 1, current_mission)
             THEN \* still waiting on mission cards
                  /\ mission_card' = cards
                  /\ current_mission_count' = current_mission_count + 1
                  /\ ret' = Return("play_mission_card")
                  /\ UNCHANGED <<historyVars, mission_num, game_phase, lobby_status>>
             ELSE \E played_cards \in
                       Shuffles([i \in 1..Len(current_mission) |->
                                   cards[player_name_to_session_id[current_mission[i]]]]) :
                    LET result == mission_result(get_num_players, mission_num, played_cards)
                        results == Append(mission_num_to_result, result)
                        num_failed_missions == Count(results, "FAIL")
                        num_passed_missions == Len(results) - num_failed_missions
                    IN /\ mission_players' = Append(mission_players, current_mission)
                       /\ mission_num_to_result' = results
                       /\ mission_cards' = Append(mission_cards, played_cards)
                       /\ mission_num' = mission_num + 1
                       /\ mission_card' =
                            [s \in SessionIds |->
                               IF player_name[s] \in Range(current_mission)
                               THEN None ELSE cards[s]]
                       /\ current_mission_count' = 0
                       /\ ret' = Return("play_mission_card")
                       /\ game_phase' =
                            phase_after_mission(num_passed_missions, num_failed_missions)
                       /\ lobby_status' =
                            IF num_passed_missions # 3 /\ num_failed_missions = 3
                            THEN "DONE" ELSE lobby_status
  /\ UNCHANGED <<playerVars, proposal_vote, roleVars, orderVars, start_calls,
                 current_proposal_num, current_proposals, number_votes,
                 current_mission, last_vote_info>>

PlayMissionCard ==
  /\ \E s \in SessionIds : \E card \in MissionCards : play_mission_card(s, card)
  /\ UNCHANGED registryVars

\* ------------------------------------------------------------------ abilities
\* Game.use_ability: the recorded Maeve / Agravaine player is a Player, which
\* has no use_ability method.
use_ability_raises(session_id) ==
  \/ session_id \notin Range(session_id_to_player)
  \/ session_id = maeve_player
  \/ session_id = agravaine_player

\* The call changes nothing whether it returns or raises.
use_ability(session_id) ==
  /\ session_id \in Range(session_id_to_player)
  /\ UNCHANGED vars

UseAbility == \E s \in SessionIds : use_ability(s)

\* The get_* queries assign nothing; each but get_mission_info raises unless
\* the lobby is IN_PROGRESS.
Queries == {"get_player_info", "get_proposal_info", "get_round_info", "get_mission_info"}

query(q) ==
  /\ q = "get_mission_info" \/ lobby_status = "IN_PROGRESS"
  /\ UNCHANGED vars

Query == \E q \in Queries : query(q)

StartGame ==
  /\ start_game(DrawnRoles, TRUE)
  /\ UNCHANGED registryVars

Next ==
  \/ AddPlayer
  \/ RemovePlayer
  \/ StartGame
  \/ SetProposal
  \/ SetVote
  \/ PlayMissionCard
  \/ UseAbility
  \/ Query

Spec == Init /\ [][Next]_vars

\* ------------------------------------------------ the double-fail mission
\* Seven players, in registration order, which is also one outcome of both
\* shuffles of start_game.
SevenPlayers == <<"s1", "s2", "s3", "s4", "s5", "s6", "s7">>
SevenNames == <<"p1", "p2", "p3", "p4", "p5", "p6", "p7">>

\* The mission history of a seven-player game that has resolved three missions
\* (of 2, 3 and 3 participants) without ending; p5 holds an EVIL role.
SevenHistories ==
  {[results |-> <<"PASS", "FAIL", "PASS">>,
    players |-> << <<"p1", "p2">>, <<"p1", "p2", "p5">>, <<"p1", "p2", "p3">> >>,
    cards |-> << <<"SUCCESS", "SUCCESS">>, <<"SUCCESS", "FAIL", "SUCCESS">>,
                 <<"SUCCESS", "SUCCESS", "SUCCESS">> >>],
   [results |-> <<"FAIL", "PASS", "FAIL">>,
    players |-> << <<"p5", "p1">>, <<"p1", "p2", "p3">>, <<"p1", "p5", "p6">> >>,
    cards |-> << <<"FAIL", "SUCCESS">>, <<"SUCCESS", "SUCCESS", "SUCCESS">>,
                 <<"SUCCESS", "SUCCESS", "FAIL">> >>]}

\* A seven-player game as it is when the mission of index 3 has just been
\* launched by a unanimous vote, every earlier proposal having been voted in
\* at once: s1..s4 drew Merlin, Percival, Lancelot and Nimue (no lover, so no
\* add_seen_player call raised), s5..s7 any three of the four evil roles, the
\* first drawn being the assassin, and the mission is any four players seated
\* next to each other.
InitMission ==
  /\ session_id_to_player = SevenPlayers
  /\ player_name =
       [s \in SessionIds |->
          IF s \in Range(SevenPlayers) THEN SevenNames[IndexOf(SevenPlayers, s)]
          ELSE None]
  /\ player_name_to_session_id =
       [n \in Names |->
          IF n \in Range(SevenNames) THEN SevenPlayers[IndexOf(SevenNames, n)]
          ELSE None]
  /\ proposal_vote = [s \in SessionIds |-> None]
  /\ mission_card = [s \in SessionIds |-> None]
  /\ \E evil_idx \in Samples(4, 3) :
       LET good_roles == BASE_GOOD_ROLES \o GAME_SIZE_TO_GOOD_ROLES[7]
           evil_roles == BASE_EVIL_ROLES \o GAME_SIZE_TO_EVIL_ROLES[7]
           assigned ==
             [s \in SessionIds |->
                LET i == IndexOf(SevenPlayers, s)
                IN IF s \notin Range(SevenPlayers) THEN NoRole
                   ELSE IF i <= GAME_SIZE_TO_GOOD_COUNT[7]
                   THEN NewRole(good_roles[<<2, 3, 5, 6>>[i]], FALSE)
                   ELSE NewRole(evil_roles[evil_idx[i - GAME_SIZE_TO_GOOD_COUNT[7]]],
                                i = GAME_SIZE_TO_GOOD_COUNT[7] + 1)]
           seen == AddSeenAll(SeenCalls(SevenPlayers, 1, 2),
                              [roles |-> assigned, raised |-> FALSE])
       IN /\ role = seen.roles
          /\ maeve_player =
               IF \E k \in 1..3 : evil_roles[evil_idx[k]] = "Maeve"
               THEN SevenPlayers[GAME_SIZE_TO_GOOD_COUNT[7]
                                 + (CHOOSE k \in 1..3 : evil_roles[evil_idx[k]] = "Maeve")]
               ELSE None
  /\ agravaine_player = None
  /\ lobby_status = "IN_PROGRESS"
  /\ game_phase = "MISSION"
  /\ \E h \in SevenHistories :
       /\ mission_num_to_result = h.results
       /\ mission_players = h.players
       /\ mission_cards = h.cards
  /\ last_vote_info = [n \in Names |-> IF n \in Range(SevenNames) THEN 1 ELSE None]
  /\ proposal_order_names = SevenNames
  /\ proposal_order_players = SevenPlayers
  /\ proposer_index = 3
  /\ proposer_id = SevenPlayers[4]
  /\ current_proposal_num = 1
  /\ max_num_proposers = MaxNumProposers(7 - GAME_SIZE_TO_GOOD_COUNT[7])
  /\ current_proposals = <<>>
  /\ number_votes = 7
  /\ mission_num = 3
  /\ \E k \in 1..4 : current_mission = SubSeq(SevenNames, k, k + 3)
  /\ current_mission_count = 0
  /\ ret = Return("set_vote")
  /\ start_calls = 1
  /\ NewRegistries

NextMission == PlayMissionCard

SpecMission == InitMission /\ [][NextMission]_vars

\* ------------------------------------------ missions other than double-fail
\* The mission histories of a seven-player game that has resolved two or four
\* missions without ending; p5 holds an EVIL role.
LaterHistories ==
  {[results |-> <<"PASS", "FAIL">>,
    players |-> << <<"p1", "p2">>, <<"p1", "p2", "p5">> >>,
    cards |-> << <<"SUCCESS", "SUCCESS">>, <<"SUCCESS", "FAIL", "SUCCESS">> >>],
   [results |-> <<"FAIL", "PASS">>,
    players |-> << <<"p5", "p1">>, <<"p1", "p2", "p3">> >>,
    cards |-> << <<"FAIL", "SUCCESS">>, <<"SUCCESS", "SUCCESS", "SUCCESS">> >>],
   [results |-> <<"PASS", "FAIL", "PASS", "FAIL">>,
    players |-> << <<"p1", "p2">>, <<"p1", "p2", "p5">>, <<"p1", "p2", "p3">>,
                   <<"p1", "p2", "p5", "p6">> >>,
    cards |-> << <<"SUCCESS", "SUCCESS">>, <<"SUCCESS", "FAIL", "SUCCESS">>,
                 <<"SUCCESS", "SUCCESS", "SUCCESS">>,
                 <<"FAIL", "SUCCESS", "SUCCESS", "FAIL">> >>]}

\* A seven-player game as it is when the mission of index 2 or 4 has just been
\* launched by a unanimous vote, every earlier proposal having been voted in
\* at once: roles as in InitMission, and the mission is any run of players
\* seated next to each other, of the size the table gives.
InitCards ==
  /\ session_id_to_player = SevenPlayers
  /\ player_name =
       [s \in SessionIds |->
          IF s \in Range(SevenPlayers) THEN SevenNames[IndexOf(SevenPlayers, s)]
          ELSE None]
  /\ player_name_to_session_id =
       [n \in Names |->
          IF n \in Range(SevenNames) THEN SevenPlayers[IndexOf(SevenNames, n)]
          ELSE None]
  /\ proposal_vote = [s \in SessionIds |-> None]
  /\ mission_card = [s \in SessionIds |-> None]
  /\ \E evil_idx \in Samples(4, 3) :
       LET good_roles == BASE_GOOD_ROLES \o GAME_SIZE_TO_GOOD_ROLES[7]
           evil_roles == BASE_EVIL_ROLES \o GAME_SIZE_TO_EVIL_ROLES[7]
           assigned ==
             [s \in SessionIds |->
                LET i == IndexOf(SevenPlayers, s)
                IN IF s \notin Range(SevenPlayers) THEN NoRole
                   ELSE IF i <= GAME_SIZE_TO_GOOD_COUNT[7]
                   THEN NewRole(good_roles[<<2, 3, 5, 6>>[i]], FALSE)
                   ELSE NewRole(evil_roles[evil_idx[i - GAME_SIZE_TO_GOOD_COUNT[7]]],
                                i = GAME_SIZE_TO_GOOD_COUNT[7] + 1)]
           seen == AddSeenAll(SeenCalls(SevenPlayers, 1, 2),
                              [roles |-> assigned, raised |-> FALSE])
       IN /\ role = seen.roles
          /\ maeve_player =
               IF \E k \in 1..3 : evil_roles[evil_idx[k]] = "Maeve"
               THEN SevenPlayers[GAME_SIZE_TO_GOOD_COUNT[7]
                                 + (CHOOSE k \in 1..3 : evil_roles[evil_idx[k]] = "Maeve")]
               ELSE None
  /\ agravaine_player = None
  /\ lobby_status = "IN_PROGRESS"
  /\ game_phase = "MISSION"
  /\ \E h \in LaterHistories :
       /\ mission_num_to_result = h.results
       /\ mission_players = h.players
       /\ mission_cards = h.cards
       /\ mission_num = Len(h.results)
       /\ proposer_index = Len(h.results)
       /\ proposer_id = SevenPlayers[Len(h.results) + 1]
       /\ LET size == MISSION_NUM_TO_PROPOSAL_SIZE[7][Len(h.results) + 1]
          IN \E k \in 1..(8 - size) :
               current_mission = SubSeq(SevenNames, k, k + size - 1)
  /\ last_vote_info = [n \in Names |-> IF n \in Range(SevenNames) THEN 1 ELSE None]
  /\ proposal_order_names = SevenNames
  /\ proposal_order_players = SevenPlayers
  /\ current_proposal_num = 1
  /\ max_num_proposers = MaxNumProposers(7 - GAME_SIZE_TO_GOOD_COUNT[7])
  /\ current_proposals = <<>>
  /\ number_votes = 7
  /\ current_mission_count = 0
  /\ ret = Return("set_vote")
  /\ start_calls = 1
  /\ NewRegistries

NextCards == PlayMissionCard

SpecCards == InitCards /\ [][NextCards]_vars

\* ------------------------------------------------------ play under fairness
\* The calls the players make while the game is played.
PlayerAction == SetProposal \/ SetVote \/ PlayMissionCard

\* A new Game on which one start_game call gets past the player-count check.
InitLive == NewGame /\ start_calls = MaxStartCalls - 1 /\ NewRegistries

NextLive == AddPlayer \/ RemovePlayer \/ StartGame \/ PlayerAction

\* Every method is a synchronous state transition: a call that would be
\* accepted and that the players keep making is eventually executed.  Players
\* joining and the start are not forced.
SpecLive == InitLive /\ [][NextLive]_vars /\ WF_vars(PlayerAction)

\* ------------------------------------------------- starting, 2 to 10 players
\* start_game for every player count it accepts and every outcome of the two
\* random.sample calls and of random.choice.  The game is in the state reached
\* by MIN_NUM_PLAYERS..MAX_NUM_PLAYERS add_player calls on a new Game; one
\* start_game call remains.  Of the outcomes of each random.shuffle the
\* identity and the reversal are explored: which role a player gets is decided
\* by the player's position and the ordered samples, and every ordered sample
\* is explored.
TenPlayers == <<"s1", "s2", "s3", "s4", "s5", "s6", "s7", "s8", "s9", "s10">>
TenNames == <<"p1", "p2", "p3", "p4", "p5", "p6", "p7", "p8", "p9", "p10">>

AllRoleNames ==
  UNION {Range(BASE_GOOD_ROLES \o GAME_SIZE_TO_GOOD_ROLES[n]) : n \in 2..10}
  \cup UNION {Range(BASE_EVIL_ROLES \o GAME_SIZE_TO_EVIL_ROLES[n]) : n \in 2..10}

InitStart ==
  \E n \in MIN_NUM_PLAYERS..MAX_NUM_PLAYERS :
    /\ session_id_to_player = SubSeq(TenPlayers, 1, n)
    /\ player_name =
         [s \in SessionIds |->
            IF s \in Range(SubSeq(TenPlayers, 1, n))
            THEN TenNames[IndexOf(TenPlayers, s)]
            ELSE None]
    /\ player_name_to_session_id =
         [m \in Names |->
            IF m \in Range(SubSeq(TenNames, 1, n))
            THEN TenPlayers[IndexOf(TenNames, m)]
            ELSE None]
    /\ proposal_vote = [s \in SessionIds |-> None]
    /\ mission_card = [s \in SessionIds |-> None]
    /\ role = [s \in SessionIds |-> NoRole]
    /\ lobby_status = "JOINING"
    /\ game_phase = "PROPOSAL"
    /\ mission_num_to_result = <<>>
    /\ mission_players = <<>>
    /\ mission_cards = <<>>
    /\ last_vote_info = [m \in Names |-> None]
    /\ proposal_order_names = <<>>
    /\ proposal_order_players = <<>>
    /\ proposer_index = 0
    /\ proposer_id = ""
    /\ current_proposal_num = 1
    /\ max_num_proposers = 0
    /\ current_proposals = <<>>
    /\ number_votes = 0
    /\ mission_num = 0
    /\ current_mission = <<>>
    /\ current_mission_count = 0
    /\ maeve_player = None
    /\ agravaine_player = None
    /\ ret = Return("add_player")
    /\ start_calls = MaxStartCalls - 1
    /\ NewRegistries

StartSample ==
  /\ start_game(AllRoleNames, FALSE)
  /\ UNCHANGED registryVars

NextStart == StartSample

SpecStart == InitStart /\ [][NextStart]_vars

\* ------------------------------------------------------------ rejected calls
\* The calls that raise before their first assignment, as steps: the only
\* thing they leave behind is the exception the caller receives.  In set_vote
\* and play_mission_card the lookup of an unknown session id raises KeyError
\* after the status and phase checks; every other rejection is a ValueError.
\* (The guards are compared with TRUE so that their disjuncts are evaluated in
\* the order of the source's checks, a later one only if the earlier ones did
\* not raise.)
gameVars == <<playerVars, roundVars, roleVars, orderVars, historyVars, cycleVars,
              lobby_status>>

add_player_rejected(session_id, name) ==
  /\ add_player_rejects(session_id, name) = TRUE
  /\ ret' = Raise("add_player", "ValueError")
  /\ UNCHANGED <<gameVars, start_calls>>

remove_player_rejected(session_id) ==
  /\ remove_player_rejects(session_id) = TRUE
  /\ ret' = Raise("remove_player", "ValueError")
  /\ UNCHANGED <<gameVars, start_calls>>

set_proposal_rejected(player_names) ==
  /\ set_proposal_rejects(player_names) = TRUE
  /\ ret' = Raise("set_proposal", "ValueError")
  /\ UNCHANGED <<gameVars, start_calls>>

LookupError(session_id, phase) ==
  IF /\ lobby_status = "IN_PROGRESS"
     /\ game_phase = phase
     /\ session_id \notin Range(session_id_to_player)
  THEN "KeyError" ELSE "ValueError"

\* A variant of set_vote_rejected that counts the vote before it raises.
set_vote_rejected_counting(session_id) ==
  /\ set_vote_rejects(session_id) = TRUE
  /\ ret' = Raise("set_vote", LookupError(session_id, "VOTE"))
  /\ number_votes' = number_votes + 1
  /\ UNCHANGED <<playerVars, roundVars, roleVars, orderVars, historyVars,
                 lobby_status, game_phase, current_proposal_num,
                 current_proposals, mission_num, current_mission,
                 current_mission_count, last_vote_info, start_calls>>

set_vote_rejected(session_id) ==
  /\ set_vote_rejects(session_id) = TRUE
  /\ ret' = Raise("set_vote", LookupError(session_id, "VOTE"))
  /\ UNCHANGED <<gameVars, start_calls>>

play_mission_card_rejected(session_id, card) ==
  /\ play_mission_card_rejects(session_id, card) = TRUE
  /\ ret' = Raise("play_mission_card", LookupError(session_id, "MISSION"))
  /\ UNCHANGED <<gameVars, start_calls>>

\* The session ids presented in rejected calls: the two that can be registered
\* in Spec and one that never is.
RejectIds == {"s1", "s2", "s3"}

AddPlayerRejected ==
  /\ \E in \in AddInputs : add_player_rejected(in[1], in[2])
  /\ UNCHANGED registryVars
RemovePlayerRejected ==
  /\ \E s \in RejectIds : remove_player_rejected(s)
  /\ UNCHANGED registryVars
SetProposalRejected ==
  /\ \E player_names \in ProposalInputs : set_proposal_rejected(player_names)
  /\ UNCHANGED registryVars
SetVoteRejected ==
  /\ \E s \in RejectIds : set_vote_rejected(s)
  /\ UNCHANGED registryVars
PlayMissionCardRejected ==
  /\ \E s \in RejectIds : \E card \in MissionCards :
       play_mission_card_rejected(s, card)
  /\ UNCHANGED registryVars

\* A new Game on which one start_game call gets past the player-count check.
InitReject == NewGame /\ start_calls = MaxStartCalls - 1 /\ NewRegistries

NextReject ==
  \/ Next
  \/ AddPlayerRejected
  \/ RemovePlayerRejected
  \/ SetProposalRejected
  \/ SetVoteRejected
  \/ PlayMissionCardRejected

SpecReject == InitReject /\ [][NextReject]_vars

\* ---------------------------------------------------------- ability calls
\* Maeve's _NUM_USES.
NUM_USES == 3

\* A variant of maeve_use_ability without the use limit.
maeve_use_ability_unlimited(r) ==
  [role |-> [r EXCEPT !.used_ability = TRUE, !.ability_count = @ + 1],
   raised |-> FALSE]

\* Maeve.use_ability on the role object r: the role afterwards and whether
\* the call raised ValueError.
maeve_use_ability(r) ==
  IF r.ability_count >= NUM_USES
  THEN [role |-> r, raised |-> TRUE]
  ELSE [role |-> [r EXCEPT !.used_ability = TRUE, !.ability_count = @ + 1],
        raised |-> FALSE]

\* use_ability of the role classes: Maeve's is limited, Agravaine's is "pass",
\* every other class raises ValueError.
role_use_ability(r) ==
  CASE r.role_name = "Maeve" -> maeve_use_ability(r)
    [] r.role_name = "Agravaine" -> [role |-> r, raised |-> FALSE]
    [] OTHER -> [role |-> r, raised |-> TRUE]

\* Game.use_ability(session_id) as a step that records how the call ended.
\* It assigns nothing: for the recorded Maeve or Agravaine player it calls
\* use_ability on the Player object, which has no such method.
game_use_ability(session_id) ==
  /\ ret' = IF session_id \notin Range(session_id_to_player)
            THEN Raise("use_ability", "KeyError")
            ELSE IF use_ability_raises(session_id)
            THEN Raise("use_ability", "AttributeError")
            ELSE Return("use_ability")
  /\ UNCHANGED <<gameVars, start_calls, registryVars>>

\* player.role.use_ability() called on the role object of a player of a
\* started game (game.get_player(session_id).role.use_ability()).
player_role_use_ability(session_id) ==
  /\ session_id \in Range(session_id_to_player)
  /\ role[session_id] # NoRole
  /\ LET res == role_use_ability(role[session_id])
     IN /\ role' = [role EXCEPT ![session_id] = res.role]
        /\ ret' = IF res.raised THEN Raise("role.use_ability", "ValueError")
                  ELSE Return("role.use_ability")
  /\ UNCHANGED <<playerVars, roundVars, maeve_player, agravaine_player,
                 orderVars, historyVars, cycleVars, lobby_status, start_calls,
                 registryVars>>

\* The ability calls explored are those of the player recorded as Maeve.
GameUseAbility ==
  \E s \in SessionIds : s = maeve_player /\ game_use_ability(s)

PlayerRoleUseAbility ==
  \E s \in SessionIds : s = maeve_player /\ player_role_use_ability(s)

\* A new Game on which one start_game call gets past the player-count check.
InitAbility == NewGame /\ start_calls = MaxStartCalls - 1 /\ NewRegistries

NextAbility ==
  \/ AddPlayer
  \/ RemovePlayer
  \/ StartGame
  \/ SetProposal
  \/ SetVote
  \/ PlayMissionCard
  \/ GameUseAbility
  \/ PlayerRoleUseAbility

SpecAbility == InitAbility /\ [][NextAbility]_vars

\* ------------------------------------------------------------- the registry
\* The GameManager called by one thread: each call runs to its end before the
\* next begins.
ManagerCall(t) ==
  \/ \E op \in ManagerOps : \E game_uuid \in GameUuids :
       manager_begin(t, op, game_uuid)
  \/ manager_finish(t)

InitManager == Init

NextManager == ManagerCall("t1")

SpecManager == InitManager /\ [][NextManager]_vars

\* The GameManager called by the threads of Threads, which may be interrupted
\* between the membership test and the dictionary operation (neither method
\* takes a lock).
NextManagerThreads == \E t \in Threads : ManagerCall(t)

SpecManagerThreads == InitManager /\ [][NextManagerThreads]_vars

\* The LobbyManager called by one caller at a time.
InitLobbyManager == Init

NextLobbyManager == CreateNewLobby \/ RemoveLobby

SpecLobbyManager == InitLobbyManager /\ [][NextLobbyManager]_vars

\* ------------------------------------------------------- the lobby, up to full
\* add_player and remove_player on a lobby that holds up to MaxSeated players
\* when first observed (the state reached by that many add_player calls on a
\* new Game).  Three further session ids ask for three further names in every
\* combination, so that the game fills up and the eleventh player is refused;
\* s1 may come back after leaving, and s9 may ask for the name of s1.
MaxSeated == 8

LobbyInputs ==
  ({"s9", "s10", "s11"} \X {"p9", "p10", "p11"})
  \cup {<<"s1", "p1">>, <<"s9", "p1">>}

InitLobby ==
  \E n \in 0..MaxSeated :
    /\ session_id_to_player = SubSeq(TenPlayers, 1, n)
    /\ player_name =
         [s \in SessionIds |->
            IF s \in Range(SubSeq(TenPlayers, 1, n))
            THEN TenNames[IndexOf(TenPlayers, s)]
            ELSE None]
    /\ player_name_to_session_id =
         [m \in Names |->
            IF m \in Range(SubSeq(TenNames, 1, n))
            THEN TenPlayers[IndexOf(TenNames, m)]
            ELSE None]
    /\ proposal_vote = [s \in SessionIds |-> None]
    /\ mission_card = [s \in SessionIds |-> None]
    /\ role = [s \in SessionIds |-> NoRole]
    /\ lobby_status = "JOINING"
    /\ game_phase = "PROPOSAL"
    /\ mission_num_to_result = <<>>
    /\ mission_players = <<>>
    /\ mission_cards = <<>>
    /\ last_vote_info = [m \in Names |-> None]
    /\ proposal_order_names = <<>>
    /\ proposal_order_players = <<>>
    /\ proposer_index = 0
    /\ proposer_id = ""
    /\ current_proposal_num = 1
    /\ max_num_proposers = 0
    /\ current_proposals = <<>>
    /\ number_votes = 0
    /\ mission_num = 0
    /\ current_mission = <<>>
    /\ current_mission_count = 0
    /\ maeve_player = None
    /\ agravaine_player = None
    /\ ret = IF n = 0 THEN Return("__init__") ELSE Return("add_player")
    /\ start_calls = 0
    /\ NewRegistries

AddLobbyPlayer ==
  /\ \E in \in LobbyInputs : add_player(in[1], in[2])
  /\ UNCHANGED registryVars

NextLobby ==
  \/ AddLobbyPlayer
  \/ RemovePlayer

SpecLobby == InitLobby /\ [][NextLobby]_vars

\* ============================================================== properties
\* Every step that changes the state is one call, and ret names it.
Called(op) == vars' # vars /\ ret'.op = op

Registered == Range(session_id_to_player)

\* The number of players holding an EVIL role.
EvilCount == Cardinality({s \in Registered : role[s].team = "EVIL"})

\* C1: the phase changes only along the edges PROPOSAL->VOTE, PROPOSAL->MISSION
\* (mission index >= 1 only), VOTE->MISSION, VOTE->PROPOSAL (mission index >= 1
\* only), MISSION->PROPOSAL, MISSION->ASSASSINATION and MISSION->DONE, each by a
\* set_proposal, set_vote or play_mission_card call that returns normally; a
\* set_proposal that changes the state and leaves the phase PROPOSAL is the
\* first of the two mission-0 proposals; and no step moves the phase out of
\* ASSASSINATION or DONE.
C1_PhaseEdges ==
  [][/\ game_phase' # game_phase =>
          /\ ret'.status = "ok"
          /\ \/ /\ ret'.op = "set_proposal"
                /\ game_phase = "PROPOSAL"
                /\ \/ game_phase' = "VOTE"
                   \/ game_phase' = "MISSION" /\ mission_num >= 1
             \/ /\ ret'.op = "set_vote"
                /\ game_phase = "VOTE"
                /\ \/ game_phase' = "MISSION"
                   \/ game_phase' = "PROPOSAL" /\ mission_num >= 1
             \/ /\ ret'.op = "play_mission_card"
                /\ game_phase = "MISSION"
                /\ game_phase' \in {"PROPOSAL", "ASSASSINATION", "DONE"}
     /\ (Called("set_proposal") /\ game_phase' = game_phase) =>
          /\ ret'.status = "ok"
          /\ game_phase = "PROPOSAL"
          /\ mission_num = 0
          /\ current_proposals = <<>>
     /\ game_phase \in {"ASSASSINATION", "DONE"} => game_phase' = game_phase
    ]_vars

\* A vote on a later mission was turned down: the phase went from PROPOSAL to
\* VOTE to MISSION on mission 0, back to PROPOSAL, to VOTE and to PROPOSAL again.
C1_Witness ==
  /\ game_phase = "PROPOSAL"
  /\ ret = Return("set_vote")
  /\ mission_num >= 1

\* C2: on mission index 0 the phase is VOTE only with exactly two proposals in
\* flight: the first accepted set_proposal leaves the phase PROPOSAL, changing
\* only the in-flight proposals and the proposer bookkeeping, and the second
\* moves to VOTE with both proposals in submission order.  On a mission index
\* >= 1 one accepted set_proposal leaves PROPOSAL, to VOTE with exactly that
\* proposal in flight or to MISSION with that proposal as the participants.
C2_TwoProposalsOnFirstMission ==
  /\ [](game_phase = "VOTE" =>
          Len(current_proposals) = (IF mission_num = 0 THEN 2 ELSE 1))
  /\ [][\A player_names \in ProposalInputs :
          (set_proposal(player_names) /\ ret'.status = "ok") =>
            IF mission_num = 0 /\ current_proposals = <<>>
            THEN /\ game_phase' = "PROPOSAL"
                 /\ current_proposals' = <<player_names>>
                 /\ proposer_index' = (proposer_index + 1) % get_num_players
                 /\ UNCHANGED <<current_mission, mission_num, playerVars,
                                roundVars, historyVars>>
            ELSE IF mission_num = 0
            THEN /\ game_phase' = "VOTE"
                 /\ current_proposals' = <<current_proposals[1], player_names>>
            ELSE \/ /\ game_phase' = "VOTE"
                    /\ current_proposals' = <<player_names>>
                 \/ /\ game_phase' = "MISSION"
                    /\ current_mission' = player_names
                    /\ current_proposals' = <<>>
       ]_vars

\* The vote on the two proposals of mission index 0 is open.
C2_Witness ==
  /\ game_phase = "VOTE"
  /\ mission_num = 0
  /\ Len(current_proposals) = 2
  /\ current_proposals[1] # current_proposals[2]

\* The vote of player s completes the round: every registered player has voted.
LastVote(s) ==
  \A o \in Registered \ {s} : proposal_vote[o] # None

\* C3: when the last vote of the mission-0 vote round is cast the phase becomes
\* MISSION, with the first proposal as participants if the upvotes are a strict
\* majority of all players and the second proposal in every other case.
C3_FirstMissionVote ==
  [][\A s \in SessionIds : \A vote \in Votes :
       (set_vote(s, vote) /\ mission_num = 0 /\ LastVote(s)) =>
         LET upvotes == Upvotes([proposal_vote EXCEPT ![s] = vote])
         IN /\ game_phase' = "MISSION"
            /\ current_mission' =
                 IF 2 * upvotes > get_num_players
                 THEN current_proposals[1] ELSE current_proposals[2]
    ]_vars

\* C4: when the last vote of a vote round on a mission index >= 1 is cast, the
\* phase becomes MISSION with the in-flight proposal as participants if the
\* upvotes exceed half the number of players, and otherwise becomes PROPOSAL
\* with the in-flight proposals cleared and the mission index unchanged.
C4_LaterMissionVote ==
  [][\A s \in SessionIds : \A vote \in Votes :
       (set_vote(s, vote) /\ mission_num >= 1 /\ LastVote(s)) =>
         LET upvotes == Upvotes([proposal_vote EXCEPT ![s] = vote])
         IN IF 2 * upvotes > get_num_players
            THEN /\ game_phase' = "MISSION"
                 /\ current_mission' = current_proposals[1]
            ELSE /\ game_phase' = "PROPOSAL"
                 /\ current_proposals' = <<>>
                 /\ mission_num' = mission_num
    ]_vars

\* C5: on a mission index >= 1, an accepted set_proposal made while the
\* proposal-attempt counter equals the number of EVIL players plus one moves
\* the phase from PROPOSAL straight to MISSION with that proposal as the
\* participants, records no vote, and leaves the counter equal to 1.
C5_ForcedProposal ==
  [][\A player_names \in ProposalInputs :
       (/\ set_proposal(player_names)
        /\ ret'.status = "ok"
        /\ mission_num >= 1
        /\ current_proposal_num = EvilCount + 1) =>
         /\ game_phase = "PROPOSAL"
         /\ game_phase' = "MISSION"
         /\ current_mission' = player_names
         /\ current_proposals' = <<>>
         /\ current_proposal_num' = 1
         /\ proposal_vote' = proposal_vote
         /\ \A s \in Registered : proposal_vote'[s] = None
         /\ last_vote_info' = last_vote_info
    ]_vars

\* A forced proposal has just launched a mission of index >= 1.
C5_Witness ==
  /\ game_phase = "MISSION"
  /\ mission_num >= 1
  /\ ret = Return("set_proposal")
  /\ current_proposal_num = 1

\* C6: on every mission index >= 1 the proposal-attempt counter is 1 when the
\* previous mission is launched and until it ends, grows by one with every
\* accepted proposal that opens a vote, and changes at no other step before the
\* next launch; it never exceeds the number of EVIL players plus one, which is
\* the recorded maximum number of proposers.  So at most evil_count + 1
\* proposals are accepted and at most evil_count vote rounds held before the
\* mission is launched.
C6_BoundedProposals ==
  /\ [](lobby_status # "JOINING" => max_num_proposers = EvilCount + 1)
  /\ []((lobby_status = "IN_PROGRESS" /\ mission_num >= 1) =>
          /\ game_phase = "PROPOSAL" =>
               (1 <= current_proposal_num /\ current_proposal_num <= EvilCount + 1)
          /\ game_phase = "VOTE" =>
               (2 <= current_proposal_num /\ current_proposal_num - 1 <= EvilCount)
          /\ game_phase = "MISSION" => current_proposal_num = 1)
  /\ [][mission_num' >= 1 =>
          current_proposal_num' =
            IF game_phase' = "MISSION" /\ game_phase # "MISSION" THEN 1
            ELSE IF Called("set_proposal") THEN current_proposal_num + 1
            ELSE current_proposal_num
       ]_vars

\* The last vote round the bound allows on a later mission is open.
C6_Witness ==
  /\ game_phase = "VOTE"
  /\ mission_num >= 1
  /\ current_proposal_num - 1 = EvilCount
  /\ EvilCount >= 1

\* C7: within one vote round a player's vote is recorded at most once; until
\* every registered player has voted the phase stays VOTE, the vote is only
\* recorded and no tally is produced; and the vote that completes the round
\* resolves it (the phase leaves VOTE and the votes are cleared).
C7_VoteRound ==
  [][\A s \in SessionIds : \A vote \in Votes :
       set_vote(s, vote) =>
         /\ proposal_vote[s] = None
         /\ IF LastVote(s)
            THEN /\ game_phase' # "VOTE"
                 /\ \A o \in Registered : proposal_vote'[o] = None
            ELSE /\ game_phase' = "VOTE"
                 /\ proposal_vote' = [proposal_vote EXCEPT ![s] = vote]
                 /\ last_vote_info' = last_vote_info
    ]_vars

\* The registered players whose mission card is recorded.
CardsRecorded == {s \in Registered : mission_card[s] # None}

\* C8: a card is recorded only in the MISSION phase and only for a player named
\* in the current mission; a play_mission_card call records the card of one
\* player who had none; and while fewer cards are recorded than the mission has
\* participants the phase stays MISSION and no result is stored.
C8_MissionCards ==
  /\ [](\A s \in SessionIds :
          mission_card[s] # None =>
            /\ game_phase = "MISSION"
            /\ s \in Registered
            /\ player_name[s] \in Range(current_mission))
  /\ [](game_phase = "MISSION" =>
          /\ current_mission_count = Cardinality(CardsRecorded)
          /\ current_mission_count < Len(current_mission))
  /\ [][Called("play_mission_card") =>
          /\ game_phase = "MISSION"
          /\ current_mission_count + 1 < Len(current_mission) =>
               /\ game_phase' = "MISSION"
               /\ UNCHANGED <<historyVars, mission_num>>
               /\ \E s \in Registered :
                    /\ player_name[s] \in Range(current_mission)
                    /\ mission_card[s] = None
                    /\ mission_card'[s] # None
                    /\ \A o \in SessionIds \ {s} : mission_card'[o] = mission_card[o]
       ]_vars

\* One of the two participants of a mission has played and the other has not.
C8_Witness ==
  /\ game_phase = "MISSION"
  /\ Len(current_mission) = 2
  /\ current_mission[1] # current_mission[2]
  /\ current_mission_count = 1
  /\ ret = Return("play_mission_card")

\* The card is legal for the role: FAIL only from an EVIL role, REVERSE only
\* from a role with the can-reverse flag, and only FAIL from Agravaine.
Legal(r, card) ==
  /\ card = "FAIL" => r.team = "EVIL"
  /\ card = "REVERSE" => r.is_reverser
  /\ r.role_name = "Agravaine" => card = "FAIL"

\* Every player named holds a GOOD role without the can-reverse flag.
GoodNonReversers(names) ==
  \A n \in Range(names) :
    LET r == role[player_name_to_session_id[n]]
    IN r.team = "GOOD" /\ ~r.is_reverser

\* C9: a mission card is accepted only if it is legal for the role of the player
\* who plays it, and no recorded mission whose participants are all GOOD
\* non-reversers contains a FAIL or a REVERSE.
C9_LegalCards ==
  /\ [][\A s \in SessionIds : \A card \in MissionCards :
          play_mission_card(s, card) => Legal(role[s], card)]_vars
  /\ [](\A m \in 1..Len(mission_cards) :
          GoodNonReversers(mission_players[m]) =>
            \A i \in 1..Len(mission_cards[m]) : mission_cards[m][i] = "SUCCESS")

\* The cards and the result recorded for the mission of index 3.
FourthCards == mission_cards[4]
FourthResult == mission_num_to_result[4]
DoubleFailResolved == get_num_players >= 7 /\ Len(mission_cards) >= 4

\* C10 as stated: on the double-fail mission one FAIL and no REVERSE gives
\* PASS, one FAIL and one REVERSE gives PASS, two FAILs and no REVERSE give FAIL.
C10_DoubleFailAsStated ==
  DoubleFailResolved =>
    LET fails == Count(FourthCards, "FAIL")
        reverses == Count(FourthCards, "REVERSE")
    IN /\ (fails = 1 /\ reverses = 0) => FourthResult = "PASS"
       /\ (fails = 1 /\ reverses = 1) => FourthResult = "PASS"
       /\ (fails = 2 /\ reverses = 0) => FourthResult = "FAIL"

\* C10, amended: on the double-fail mission (index 3, at least 7 players) one
\* FAIL and no REVERSE gives PASS, one FAIL and one REVERSE gives FAIL, and two
\* FAILs and no REVERSE give FAIL.
C10_DoubleFail ==
  DoubleFailResolved =>
    LET fails == Count(FourthCards, "FAIL")
        reverses == Count(FourthCards, "REVERSE")
    IN /\ (fails = 1 /\ reverses = 0) => FourthResult = "PASS"
       /\ (fails = 1 /\ reverses = 1) => FourthResult = "FAIL"
       /\ (fails = 2 /\ reverses = 0) => FourthResult = "FAIL"

\* The double-fail mission was resolved with one FAIL and one REVERSE.
C10_Witness ==
  /\ DoubleFailResolved
  /\ Count(FourthCards, "FAIL") = 1
  /\ Count(FourthCards, "REVERSE") = 1
  /\ FourthResult = "FAIL"

\* The numbers of PASS and FAIL results recorded so far.
NumPassed == Count(mission_num_to_result, "PASS")
NumFailed == Count(mission_num_to_result, "FAIL")

\* C11: at most 3 PASS and at most 3 FAIL results are ever recorded, at most 5
\* in all; the phase is ASSASSINATION exactly when 3 PASS results are recorded;
\* the lobby status and the phase are DONE exactly when 3 FAIL results are
\* recorded; and every other mission resolution leaves the phase PROPOSAL with
\* the mission index one higher.
C11_ResultCounts ==
  /\ [](/\ NumPassed <= 3
        /\ NumFailed <= 3
        /\ NumPassed + NumFailed <= 5
        /\ (game_phase = "ASSASSINATION") = (NumPassed = 3)
        /\ (game_phase = "DONE") = (NumFailed = 3)
        /\ (lobby_status = "DONE") = (NumFailed = 3))
  /\ [][Len(mission_num_to_result') # Len(mission_num_to_result) =>
          /\ Len(mission_num_to_result') = Len(mission_num_to_result) + 1
          /\ mission_num' = mission_num + 1
          /\ (NumPassed' # 3 /\ NumFailed' # 3) => game_phase' = "PROPOSAL"
       ]_vars

\* C12: the lobby status only moves from JOINING to IN_PROGRESS and from
\* IN_PROGRESS to DONE: it never moves backwards, never changes once it is
\* DONE, and never returns to JOINING.
C12_LobbyOneWay ==
  [][lobby_status' # lobby_status =>
       \/ lobby_status = "JOINING" /\ lobby_status' = "IN_PROGRESS"
       \/ lobby_status = "IN_PROGRESS" /\ lobby_status' = "DONE"
    ]_vars

\* C13: a start_game call made when the lobby status is not JOINING leaves the
\* seating order, the proposer index and identity, the role assignment with
\* its seen-player lists, and the lobby status unchanged.
C13_StartOnce ==
  [][(Called("start_game") /\ lobby_status # "JOINING") =>
       UNCHANGED <<proposal_order_names, proposal_order_players, proposer_index,
                   proposer_id, role, lobby_status>>
    ]_vars

\* C14: whenever the lobby status is IN_PROGRESS or DONE, between 2 and 10
\* players are registered, and no step taken outside JOINING changes the
\* registered players or their names; add_player and remove_player take effect
\* only in JOINING, and start_game only with at least 2 players.
C14_PlayersFixed ==
  /\ [](lobby_status \in {"IN_PROGRESS", "DONE"} =>
          /\ get_num_players >= MIN_NUM_PLAYERS
          /\ get_num_players <= MAX_NUM_PLAYERS)
  /\ [][/\ lobby_status # "JOINING" =>
             UNCHANGED <<session_id_to_player, player_name,
                         player_name_to_session_id>>
        /\ (Called("add_player") \/ Called("remove_player")) =>
             lobby_status = "JOINING"
        /\ Called("start_game") => get_num_players >= MIN_NUM_PLAYERS
       ]_vars

C14_Witness ==
  /\ lobby_status = "IN_PROGRESS"
  /\ ret = Return("set_vote")
  /\ Registered = {"s1", "s2"}

\* The good-count column of the lookup table, by player count (2 to 10).
good_count(n) == <<0, 1, 2, 2, 3, 4, 4, 5, 6, 6>>[n]

GoodPlayers == {s \in Registered : role[s].team = "GOOD"}
EvilPlayers == {s \in Registered : role[s].team = "EVIL"}
StartSucceeded == ret = Return("start_game") /\ lobby_status = "IN_PROGRESS"

\* C15: after a start_game that succeeded with N registered players, exactly
\* good_count(N) players hold a GOOD role, the other N - good_count(N) hold an
\* EVIL role, and exactly one EVIL player has the assassin flag set.
C15_TeamCounts ==
  StartSucceeded =>
    /\ Cardinality(GoodPlayers) = good_count(get_num_players)
    /\ Cardinality(EvilPlayers) = get_num_players - good_count(get_num_players)
    /\ Cardinality({s \in EvilPlayers : role[s].is_assassin}) = 1
    /\ \A s \in GoodPlayers : ~role[s].is_assassin

C15_Witness ==
  /\ StartSucceeded
  /\ get_num_players = 7
  /\ Cardinality(EvilPlayers) = 3

\* No start_game succeeds with 8, 9 or 10 players: with 8 both lovers are
\* always sampled, with 9 and 10 the good sample is larger than the good pool.
StartFailsAboveSeven == StartSucceeded => get_num_players <= 7

\* With 3 or more players a start_game that sampled a lover does not succeed.
StartFailsWithLover ==
  (StartSucceeded /\ get_num_players >= 3) =>
    \A s \in Registered : role[s].role_name \notin {"Tristan", "Iseult"}

\* C16: after a start_game that succeeded, every registered player has a role
\* and no two registered players hold the same role name.
C16_DistinctRoles ==
  StartSucceeded =>
    /\ \A s \in Registered : role[s] # NoRole
    /\ \A s, t \in Registered : s # t => role[s].role_name # role[t].role_name

C16_Witness ==
  /\ StartSucceeded
  /\ get_num_players = 5
  /\ Cardinality({role[s].role_name : s \in Registered}) = 5

RoleNamesInGame == {role[s].role_name : s \in Registered}

\* C17: after a start_game that succeeded, Tristan is assigned to some player
\* if and only if Iseult is assigned to some player.
C17_LoversTogether ==
  StartSucceeded => ("Tristan" \in RoleNamesInGame <=> "Iseult" \in RoleNamesInGame)

Front(s) == SubSeq(s, 1, Len(s) - 1)

\* The name -> session id map that inverts the session id -> player name map.
InverseOfNames ==
  [m \in Names |->
     IF \E s \in Registered : player_name[s] = m
     THEN CHOOSE s \in Registered : player_name[s] = m
     ELSE None]

\* C18: in every state reached by add_player and remove_player calls no two
\* registered players share a session id or a display name, at most 10 players
\* are registered, and the name -> session id map is exactly the inverse of the
\* session id -> player name map; the list add_player returns (the names of the
\* registered players in the state it leaves) is the previous list with the new
\* name appended, and remove_player keeps the order of the remaining names.
C18_Registration ==
  /\ [](/\ \A i, j \in 1..get_num_players :
             i # j => /\ session_id_to_player[i] # session_id_to_player[j]
                      /\ get_player_names_in_game[i] # get_player_names_in_game[j]
        /\ get_num_players <= MAX_NUM_PLAYERS
        /\ \A s \in Registered : player_name[s] \in Names
        /\ player_name_to_session_id = InverseOfNames)
  /\ [][/\ Called("add_player") =>
             \E in \in SessionIds \X Names :
               /\ session_id_to_player' = Append(session_id_to_player, in[1])
               /\ get_player_names_in_game' = Append(get_player_names_in_game, in[2])
        /\ Called("remove_player") =>
             \E i \in 1..get_num_players :
               /\ session_id_to_player' = RemoveAt(session_id_to_player, i)
               /\ get_player_names_in_game' = RemoveAt(get_player_names_in_game, i)
       ]_vars

C18_Witness ==
  /\ ret = Return("add_player")
  /\ get_num_players = MAX_NUM_PLAYERS
  /\ session_id_to_player[MAX_NUM_PLAYERS] = "s1"

\* C19: in JOINING an add_player(s, n) that is accepted appends s and n to the
\* session id and name listings and enters n, which was absent, in the
\* name -> session id map; a remove_player(s) that immediately follows it leaves
\* both listings and the map exactly as they were before the add_player.
C19_AddThenRemove ==
  [][/\ Called("add_player") =>
          \E in \in SessionIds \X Names :
            /\ lobby_status = "JOINING"
            /\ player_name_to_session_id[in[2]] = None
            /\ session_id_to_player' = Append(session_id_to_player, in[1])
            /\ get_player_names_in_game' = Append(get_player_names_in_game, in[2])
            /\ player_name_to_session_id' =
                 [player_name_to_session_id EXCEPT ![in[2]] = in[1]]
     /\ (/\ ret = Return("add_player")
         /\ get_num_players > 0
         /\ remove_player(session_id_to_player[get_num_players])) =>
          /\ session_id_to_player' = Front(session_id_to_player)
          /\ get_player_names_in_game' = Front(get_player_names_in_game)
          /\ player_name_to_session_id' =
               [player_name_to_session_id EXCEPT
                  ![get_player_names_in_game[get_num_players]] = None]
    ]_vars

C19_Witness ==
  /\ ret = Return("remove_player")
  /\ session_id_to_player = <<"s1", "s2">>
  /\ get_player_names_in_game = <<"p1", "p2">>
  /\ \A m \in Names \ {"p1", "p2"} : player_name_to_session_id[m] = None

RejectableCalls ==
  {"add_player", "remove_player", "set_proposal", "set_vote", "play_mission_card"}

\* C20: a call of add_player, remove_player, set_proposal, set_vote or
\* play_mission_card that is rejected with ValueError leaves every field of the
\* game as it was: in particular the vote counter, the played-card counter, the
\* proposal-attempt counter, the proposer index and the in-flight proposals.
C20_RejectedUnchanged ==
  [][(ret'.status = "ValueError" /\ ret'.op \in RejectableCalls) =>
       /\ UNCHANGED gameVars
       /\ UNCHANGED <<number_votes, current_mission_count, current_proposal_num,
                      proposer_index, current_proposals>>
    ]_vars

C20_Witness ==
  /\ ret = Raise("play_mission_card", "ValueError")
  /\ lobby_status = "IN_PROGRESS"
  /\ game_phase = "MISSION"
  /\ current_mission_count = 0

\* C21: a start_game call either succeeds, leaving every registered player
\* with a role and the lobby status IN_PROGRESS, or fails and leaves the game
\* as it was before the call: lobby status JOINING, no player holding a role,
\* no seating order recorded, proposer index and identity unchanged.
C21_StartAllOrNothing ==
  [][Called("start_game") =>
       \/ /\ ret'.status = "ok"
          /\ lobby_status' = "IN_PROGRESS"
          /\ \A s \in Range(session_id_to_player') : role'[s] # NoRole
       \/ /\ ret'.status # "ok"
          /\ lobby_status' = "JOINING"
          /\ \A s \in Range(session_id_to_player') : role'[s] = NoRole
          /\ proposal_order_names' = <<>>
          /\ proposal_order_players' = <<>>
          /\ UNCHANGED <<proposer_index, proposer_id>>
          /\ UNCHANGED gameVars
    ]_vars

\* A step in which a GameManager call of thread t ends: its membership test
\* raises, or its dictionary operation is done and it returns.
CallEnds(t) ==
  \/ \E op \in ManagerOps : \E game_uuid \in GameUuids :
       manager_begin(t, op, game_uuid) /\ manager_call'[t] = NoCall
  \/ manager_finish(t)

GamesHeld == {uuid_to_game[u] : u \in GameUuids} \ {0}

C23_ConcurrentRegistry ==
  /\ [](\A t \in Threads : manager_ret[t].status \in {None, "ok", "ValueError"})
  /\ [][\A t \in Threads :
          CallEnds(t) =>
            \A u \in GameUuids \ {manager_ret'[t].uuid} :
              uuid_to_game'[u] = uuid_to_game[u]]_vars

\* C24: once start_game has succeeded the seating order lists every registered
\* player exactly once, the names list gives the players' names in the same
\* order, and no later step changes either list.
C24_SeatingFixed ==
  /\ [](lobby_status # "JOINING" =>
          /\ Len(proposal_order_players) = get_num_players
          /\ Range(proposal_order_players) = Registered
          /\ proposal_order_names =
               [i \in 1..Len(proposal_order_players) |->
                  player_name[proposal_order_players[i]]])
  /\ [][lobby_status # "JOINING" =>
          UNCHANGED <<proposal_order_names, proposal_order_players>>]_vars

\* A set_vote step that casts the last vote of the round and resolves it.
VoteResolves ==
  /\ Called("set_vote")
  /\ ret'.status = "ok"
  /\ game_phase = "VOTE"
  /\ game_phase' # "VOTE"

\* Maeve's used flag is set: the round's vote is to be obscured.
ObscureUsed == maeve_player # None /\ role[maeve_player].used_ability

\* Whether an entry of last_vote_info is a recorded vote (int(True) or
\* int(False)) rather than None.
IsVoteEntry(v) == ToString(v) \in {"0", "1"}

\* C25: when a vote round resolves with the obscure flag set, the
\* proposal_vote_info of the returned resolution (last_vote_info as the call
\* leaves it) maps no player to a vote.
C25_ObscuredTally ==
  [][(VoteResolves /\ ObscureUsed) =>
       \A n \in Names : ~IsVoteEntry(last_vote_info'[n])]_vars

\* What the obscured resolution returns instead: the breakdown of the last
\* round that was not obscured, untouched by this round's votes.
ObscuredKeepsOldBreakdown ==
  [][(VoteResolves /\ ObscureUsed) => UNCHANGED last_vote_info]_vars

\* A use_ability call made by the player recorded as Maeve, through
\* Game.use_ability or on the player's role object.
MaeveCall ==
  /\ maeve_player # None
  /\ role[maeve_player].role_name = "Maeve"
  /\ \/ game_use_ability(maeve_player)
     \/ player_role_use_ability(maeve_player)

\* C26: a use_ability call by Maeve succeeds exactly when fewer than 3 calls
\* have succeeded before; a successful call sets the used flag and adds one to
\* the use counter, a rejected call changes neither; the counter never
\* exceeds 3.
C26_AbilityLimit ==
  /\ [](\A s \in Registered : role[s].ability_count <= NUM_USES)
  /\ [][MaeveCall =>
          LET r == role[maeve_player]
          IN IF r.ability_count < NUM_USES
             THEN /\ ret'.status = "ok"
                  /\ role'[maeve_player].used_ability
                  /\ role'[maeve_player].ability_count = r.ability_count + 1
             ELSE /\ ret'.status # "ok"
                  /\ role'[maeve_player] = r
       ]_vars

\* The limit as Maeve.use_ability itself keeps it, when called on the role
\* object.
MaeveLimitOnRole ==
  /\ [](\A s \in Registered : role[s].ability_count <= NUM_USES)
  /\ [][(maeve_player # None /\ role[maeve_player].role_name = "Maeve"
           /\ player_role_use_ability(maeve_player)) =>
          LET r == role[maeve_player]
          IN IF r.ability_count < NUM_USES
             THEN /\ ret'.status = "ok"
                  /\ role'[maeve_player].used_ability
                  /\ role'[maeve_player].ability_count = r.ability_count + 1
             ELSE /\ ret'.status # "ok"
                  /\ role'[maeve_player] = r
       ]_vars

MaeveLimitOnRole_Reached ==
  /\ maeve_player # None
  /\ role[maeve_player].ability_count = NUM_USES
  /\ ret = Raise("role.use_ability", "ValueError")

\* C27: a use_ability call by Maeve while the mission index is 0, or while
\* her used flag is still set by an earlier call of the same round (the vote
\* has not resolved since), is rejected and consumes no use.
C27_OncePerRound ==
  [][(MaeveCall /\ (mission_num = 0 \/ role[maeve_player].used_ability)) =>
       /\ ret'.status # "ok"
       /\ role'[maeve_player].ability_count = role[maeve_player].ability_count
    ]_vars

\* The part of C27 that Game.use_ability keeps, by failing on every call.
GameCallConsumesNothing ==
  [][(MaeveCall /\ game_use_ability(maeve_player)) =>
       /\ ret'.status # "ok"
       /\ role' = role]_vars

\* The players a role's list holds, and the players holding one of the named
\* roles.
Seen(s) == Range(role[s].players_seen)
Holding(names) == {t \in Registered : role[t].role_name \in names}

BothLoversAssigned ==
  /\ ret.op = "start_game"
  /\ Holding({"Tristan"}) # {}
  /\ Holding({"Iseult"}) # {}

\* C29: a start_game call that assigns both lovers, whatever the number of
\* players and the order in which the pairs are visited, succeeds with
\* Tristan's list holding exactly the Iseult player and Iseult's list exactly
\* the Tristan player.
C29_LoversSeeEachOther ==
  BothLoversAssigned =>
    /\ StartSucceeded
    /\ \A s \in Holding({"Tristan"}) : Seen(s) = Holding({"Iseult"})
    /\ \A s \in Holding({"Iseult"}) : Seen(s) = Holding({"Tristan"})

\* No start_game call that assigns both lovers succeeds.
NoStartWithBothLovers == BothLoversAssigned => ~StartSucceeded

\* A lover's list never holds more than one player.
LoverSeesAtMostOne ==
  \A s \in Holding({"Tristan", "Iseult"}) : Len(role[s].players_seen) <= 1

\* REVERSE cards that count: two cancel each other.
EffectiveReverses(cards) ==
  IF Count(cards, "REVERSE") = 2 THEN 0 ELSE Count(cards, "REVERSE")

\* Mission i of the history is the double-fail mission.
IsDoubleFail(i) == get_num_players >= 7 /\ i = 4

\* C30: a resolved mission other than the double-fail mission is a FAIL
\* exactly when at least one FAIL was played and no REVERSE counts, or no FAIL
\* was played and exactly one REVERSE counts (two REVERSE cards cancel); in
\* every other case it is a PASS.
C30_ReverseInverts ==
  \A i \in 1..Len(mission_cards) :
    ~IsDoubleFail(i) =>
      LET fails == Count(mission_cards[i], "FAIL")
          reverses == EffectiveReverses(mission_cards[i])
      IN /\ mission_num_to_result[i] \in {"PASS", "FAIL"}
         /\ mission_num_to_result[i] = "FAIL" <=>
              \/ (fails >= 1 /\ reverses = 0)
              \/ (fails = 0 /\ reverses = 1)

\* In a seven-player game the mission of index 2 was played with a FAIL and a
\* REVERSE and passed.
C30_Witness ==
  /\ get_num_players = 7
  /\ ret = Return("play_mission_card")
  /\ Len(mission_cards) = 3
  /\ Count(mission_cards[3], "FAIL") >= 1
  /\ Count(mission_cards[3], "REVERSE") = 1
  /\ mission_num_to_result[3] = "PASS"

\* The decision for every hand of up to 5 cards holding exactly two REVERSE
\* cards is the decision for the same hand without them.
MaxMissionSize == 5
HandsOfCards == UNION {[1..k -> MissionCards] : k \in 1..MaxMissionSize}
WithoutReverse(cards) == SelectSeq(cards, LAMBDA c : c # "REVERSE")
TwoReversesCancel ==
  \A cards \in HandsOfCards : \A n \in 2..10 : \A m \in 0..4 :
    Count(cards, "REVERSE") = 2 =>
      mission_result(n, m, cards) = mission_result(n, m, WithoutReverse(cards))

\* No mission holds more than one REVERSE card: Maelegant alone may play it.
AtMostOneReverse ==
  \A i \in 1..Len(mission_cards) : Count(mission_cards[i], "REVERSE") <= 1

\* A set_proposal call that is accepted.
AcceptedProposal == SetProposal /\ ret'.status = "ok"

\* The proposer index is a seat and the proposer is the player seated there.
ProposerSeated ==
  lobby_status # "JOINING" =>
    /\ proposer_index \in 0..(get_num_players - 1)
    /\ proposer_id = proposal_order_players[proposer_index + 1]

\* C31 as stated: every accepted set_proposal advances the proposer index by 1
\* modulo the number of players and increments the proposal counter; no other
\* operation changes the proposer index; and after start_game the proposer
\* index is a seat and the proposer is the player seated there.
C31_ProposerAsStated ==
  /\ [][AcceptedProposal =>
          /\ proposer_index' = (proposer_index + 1) % get_num_players
          /\ current_proposal_num' = current_proposal_num + 1]_vars
  /\ [][(lobby_status # "JOINING" /\ proposer_index' # proposer_index)
          => SetProposal]_vars
  /\ []ProposerSeated

\* C31, amended: every accepted set_proposal advances the proposer index by 1
\* modulo the number of players; it increments the proposal counter, except
\* that the proposal that forces the mission through (mission index >= 1,
\* counter at the limit) resets the counter to 1; only set_proposal and
\* start_game change the proposer index; and after start_game the proposer
\* index is a seat and the proposer is the player seated there.
C31_Proposer ==
  /\ [][AcceptedProposal =>
          /\ proposer_index' = (proposer_index + 1) % get_num_players
          /\ current_proposal_num' =
               IF mission_num # 0 /\ current_proposal_num = max_num_proposers
               THEN 1 ELSE current_proposal_num + 1]_vars
  /\ [][proposer_index' # proposer_index => (SetProposal \/ StartGame)]_vars
  /\ []ProposerSeated

\* A proposal has just forced its mission through, wrapping the proposer index
\* round to seat 0 and resetting the counter.
C31_Witness ==
  /\ ret = Return("set_proposal")
  /\ game_phase = "MISSION"
  /\ mission_num >= 1
  /\ current_proposal_num = 1
  /\ proposer_index = 0
  /\ proposer_id = proposal_order_players[1]

\* C32: start_game leaves the proposer index at N-2; the two proposals of
\* mission index 0 are made at seats N-2 and N-1 of the proposal order; and
\* the first proposal of mission index 1 is made at seat 0.
C32_FirstProposers ==
  /\ [][StartGame => proposer_index' = get_num_players - 2]_vars
  /\ [][(AcceptedProposal /\ mission_num = 0) =>
          proposer_index = IF current_proposals = <<>>
                           THEN get_num_players - 2
                           ELSE get_num_players - 1]_vars
  /\ [][(AcceptedProposal /\ mission_num = 1 /\ current_proposal_num = 1) =>
          proposer_index = 0]_vars

\* C33: when a vote round resolves no role is left with the used flag set, so
\* a use of the ability obscures one round only; and a round that resolves
\* with the flag unset records every player's vote of that round.
C33_FlagConsumed ==
  /\ [][VoteResolves => \A s \in Registered : ~role'[s].used_ability]_vars
  /\ [][(VoteResolves /\ ~ObscureUsed) =>
          \A s \in Registered :
            proposal_vote[s] # None =>
              last_vote_info'[player_name[s]] = IntOfVote(proposal_vote[s])]_vars

\* A vote round has resolved after Maeve used the ability: the use is counted
\* and the flag is unset again.
C33_Witness ==
  /\ maeve_player # None
  /\ role[maeve_player].ability_count >= 1
  /\ ~role[maeve_player].used_ability
  /\ ret = Return("set_vote")
  /\ game_phase # "VOTE"

\* The players whose vote is set, and the mission participants whose card is
\* set.
Voted == {s \in Registered : proposal_vote[s] # None}
Played ==
  {s \in Registered : player_name[s] \in Range(current_mission)
                      /\ mission_card[s] # None}

\* C34: outside the VOTE phase no player's vote is set and in the VOTE phase
\* the vote counter is the number of players whose vote is set; outside the
\* MISSION phase no player's card is set and in the MISSION phase the card
\* counter is the number of participants whose card is set; and every accepted
\* set_proposal leaves the vote counter at 0.
C34_RoundBookkeeping ==
  /\ [](game_phase # "VOTE" => \A s \in SessionIds : proposal_vote[s] = None)
  /\ [](game_phase = "VOTE" => number_votes = Cardinality(Voted))
  /\ [](game_phase # "MISSION" => \A s \in SessionIds : mission_card[s] = None)
  /\ [](game_phase = "MISSION" => current_mission_count = Cardinality(Played))
  /\ [][AcceptedProposal => number_votes' = 0]_vars

\* A vote round has resolved, leaving the counter at N and every vote unset,
\* and one of the two participants of the mission has played.
C34_Witness ==
  /\ game_phase = "MISSION"
  /\ number_votes = get_num_players
  /\ Voted = {}
  /\ current_mission_count = 1
  /\ Cardinality(Played) = 1
  /\ Len(current_mission) = 2

\* The size the table gives for the mission of index m.
MissionSize(m) == MISSION_NUM_TO_PROPOSAL_SIZE[get_num_players][m + 1]

\* C35: the mission that is launched and every mission recorded in the
\* history has exactly as many participants as the mission-size table gives
\* for the player count and the mission index, and every participant is a
\* player of the seating order.
C35_MissionSizes ==
  /\ (lobby_status = "IN_PROGRESS" /\ game_phase = "MISSION") =>
       /\ Len(current_mission) = MissionSize(mission_num)
       /\ Cardinality(Range(current_mission)) = MissionSize(mission_num)
       /\ Range(current_mission) \subseteq Range(proposal_order_names)
  /\ \A i \in 1..Len(mission_players) :
       /\ Len(mission_players[i]) = MissionSize(i - 1)
       /\ Cardinality(Range(mission_players[i])) = MissionSize(i - 1)
       /\ Range(mission_players[i]) \subseteq Range(proposal_order_names)

\* What the two validations of set_proposal give: the list of a mission has
\* the length of the table and names only seated players.
MissionListLengths ==
  /\ (lobby_status = "IN_PROGRESS" /\ game_phase = "MISSION") =>
       /\ Len(current_mission) = MissionSize(mission_num)
       /\ Range(current_mission) \subseteq Range(proposal_order_names)
  /\ \A i \in 1..Len(mission_players) :
       /\ Len(mission_players[i]) = MissionSize(i - 1)
       /\ Range(mission_players[i]) \subseteq Range(proposal_order_names)

\* C36: in every IN_PROGRESS state the number of in-flight proposals follows
\* from the phase and the mission index: in PROPOSAL it is 0, or 1 on mission
\* index 0 only; in VOTE it is 2 on mission index 0 and 1 otherwise; in MISSION
\* it is 0; and set_proposal never raises its 'must be first mission with 2
\* proposals, or only have 1 proposal' error.
C36_InFlightProposals ==
  /\ lobby_status = "IN_PROGRESS" =>
       /\ game_phase = "PROPOSAL" =>
            \/ Len(current_proposals) = 0
            \/ (Len(current_proposals) = 1 /\ mission_num = 0)
       /\ game_phase = "VOTE" =>
            Len(current_proposals) = IF mission_num = 0 THEN 2 ELSE 1
       /\ game_phase = "MISSION" => Len(current_proposals) = 0
  /\ ret # Raise("set_proposal", "ValueError")

\* Both proposals of mission index 0 are in flight and the vote is open.
C36_Witness ==
  /\ lobby_status = "IN_PROGRESS"
  /\ game_phase = "VOTE"
  /\ mission_num = 0
  /\ Len(current_proposals) = 2
  /\ ret = Return("set_proposal")

\* The first n entries of the sequence s.
Prefix(s, n) == SubSeq(s, 1, n)

\* C37: the mission index is the number of recorded results (and of recorded
\* participant lists and card lists, which are those of missions
\* 0..mission index - 1); a recorded result, participant list or card list
\* never changes afterwards; and while the game is IN_PROGRESS in phase
\* PROPOSAL, VOTE or MISSION the mission index is in 0..4.
C37_MissionIndex ==
  /\ [](/\ mission_num = Len(mission_num_to_result)
        /\ mission_num = Len(mission_players)
        /\ mission_num = Len(mission_cards))
  /\ [][/\ Len(mission_num_to_result') >= Len(mission_num_to_result)
        /\ Prefix(mission_num_to_result', Len(mission_num_to_result))
             = mission_num_to_result
        /\ Prefix(mission_players', Len(mission_players)) = mission_players
        /\ Prefix(mission_cards', Len(mission_cards)) = mission_cards]_vars
  /\ []((lobby_status = "IN_PROGRESS"
          /\ game_phase \in {"PROPOSAL", "VOTE", "MISSION"})
        => mission_num \in 0..4)

\* The fifth mission has been resolved.
C37_Witness ==
  /\ mission_num = 5
  /\ Len(mission_num_to_result) = 5
  /\ game_phase \in {"ASSASSINATION", "DONE"}
  /\ ret = Return("play_mission_card")

\* The game is being played.
Running ==
  /\ lobby_status = "IN_PROGRESS"
  /\ game_phase \in {"PROPOSAL", "VOTE", "MISSION"}

\* Some player action would be accepted: a proposal of seated players of the
\* required size, a vote of a player who has not voted, or a legal card of a
\* participant who has not played.
SomeActionAccepted ==
  \/ /\ game_phase = "PROPOSAL"
     /\ \E k \in 1..Len(proposal_order_names) :
          ~set_proposal_rejects(SubSeq(proposal_order_names, 1, k))
  \/ /\ game_phase = "VOTE"
     /\ \E s \in Registered : ~set_vote_rejects(s)
  \/ /\ game_phase = "MISSION"
     /\ \E s \in Registered : \E card \in MissionCards :
          ~play_mission_card_rejects(s, card)

\* C38: while the game is IN_PROGRESS in phase PROPOSAL, VOTE or MISSION some
\* player action is accepted; in particular a launched mission that is not
\* yet resolved has a participant who may still play a legal card.
C38_NoDeadlock == Running => SomeActionAccepted

\* The game has ended, or is to go on to the assassination.
Ended == game_phase \in {"ASSASSINATION", "DONE"}

\* C39: once start_game has put the game IN_PROGRESS, if the player actions
\* that are accepted keep being taken, the phase eventually is ASSASSINATION
\* or DONE, and no more than 5 missions are resolved.
C39_Termination ==
  /\ (lobby_status = "IN_PROGRESS") ~> Ended
  /\ [](mission_num <= 5)

\* The game ends unless it is stuck in a state where no player action is
\* accepted.
EndsOrStuck ==
  (lobby_status = "IN_PROGRESS") ~> (Ended \/ (Running /\ ~SomeActionAccepted))

\* The lobbies and the games the LobbyManager holds.
LobbiesHeld == {l \in LobbyIds : lobby_to_game[l] # None}
GamesWithLobby == {g \in GameUuids : game_to_lobby[g] # None}

\* The two maps of the LobbyManager are inverses of each other.
MutuallyInverse ==
  /\ \A l \in LobbiesHeld : game_to_lobby[lobby_to_game[l]] = l
  /\ \A g \in GamesWithLobby : lobby_to_game[game_to_lobby[g]] = g

\* A create_new_lobby call that returns a lobby id.
LobbyCreated ==
  /\ CreateNewLobby
  /\ lobby_ret'.status = "ok"

\* C40: after any sequence of create_new_lobby and remove_lobby calls the
\* lobby -> game and game -> lobby maps are inverses of each other, and
\* create_new_lobby never returns a lobby id that is assigned to another game
\* when it is called.
C40_LobbyMapsInverse ==
  /\ []MutuallyInverse
  /\ [][LobbyCreated =>
          /\ lobby_to_game[ToString(lobby_ret'.lobby)] = None
          /\ \A g \in GameUuids : game_to_lobby[g] # ToString(lobby_ret'.lobby)]_vars

\* _count is the number of lobbies held.
CountIsLobbiesHeld == count = Cardinality(LobbiesHeld)

====
